---- MODULE Spec2Model ----
(***************************************************************************)
(* Auto-Programmer execution engine: the dependency scheduler              *)
(* (WorkflowController.run_steps_execution_phase), the per-step attempt    *)
(* loop and verification gates (StepHandler), the artifact store           *)
(* (ProjectState) and the tree builder (ProjectBuilder).                   *)
(***************************************************************************)
EXTENDS Integers, Sequences, FiniteSets, TLC

\* ------------------------------------------------------------------ bounds
\* Largest number of steps in a task-list document.
MaxTasks == 3
\* Largest attempt cap (max_step_attempts) a run is configured with.
MaxAttempts == 2

\* ------------------------------------------------------------- file trees
\* A text is a sequence of characters; 0 is the newline character.
NL == 0
\* The content of a path that holds no file.
Absent == <<-1>>

CodePaths == {"a.py", "b.py", "requirements.txt"}
STEP_CODE_OUTPUT_FILENAME == "code_generation_output.json"
INSPECTOR_FEEDBACK_FILENAME == "inspector_feedback.txt"
INSTALL_LOG_FILENAME == "install_log.txt"
USER_FEEDBACK_FILENAME == "user_feedback.txt"
STEP_SUMMARY_FILENAME == "step_summary.json"
MetaPaths == {STEP_CODE_OUTPUT_FILENAME, INSPECTOR_FEEDBACK_FILENAME,
              INSTALL_LOG_FILENAME, USER_FEEDBACK_FILENAME, STEP_SUMMARY_FILENAME}
AllPaths == CodePaths \cup MetaPaths

NoFiles == [p \in AllPaths |-> Absent]
\* A directory that does not exist, and one that exists and is empty.
NoDir == [exists |-> FALSE, files |-> NoFiles]
EmptyDir == [exists |-> TRUE, files |-> NoFiles]

\* Path.write_text: the file is created or overwritten.
WriteText(dir, path, content) ==
    [exists |-> TRUE, files |-> [dir.files EXCEPT ![path] = content]]

\* Path.unlink.
Unlink(dir, path) == [dir EXCEPT !.files[path] = Absent]

FileExists(dir, path) == dir.exists /\ dir.files[path] # Absent

\* shutil.copytree(src, dst) into a destination that does not exist.
CopyTree(src) == [exists |-> TRUE, files |-> src.files]

\* The files of a directory that are not engine metadata.
CodeFiles(dir) == [p \in CodePaths |-> dir.files[p]]

\* str.splitlines(): split at newlines, no empty last element.
RECURSIVE SplitLines(_)
SplitLines(s) ==
    IF s = <<>> THEN <<>>
    ELSE LET brk == {i \in 1..Len(s) : s[i] = NL}
         IN IF brk = {} THEN <<s>>
            ELSE LET i == CHOOSE j \in brk : \A k \in brk : j <= k
                 IN <<SubSeq(s, 1, i - 1)>> \o SplitLines(SubSeq(s, i + 1, Len(s)))

\* "\n".join(lines)
RECURSIVE JoinLines(_)
JoinLines(ls) ==
    IF ls = <<>> THEN <<>>
    ELSE IF Len(ls) = 1 THEN ls[1]
    ELSE ls[1] \o <<NL>> \o JoinLines(Tail(ls))

\* Mutation of SortDiffsDesc: the diffs are taken in their input order.
InputOrder(diffs) == diffs

\* sorted(diffs, key=start_line, reverse=True): stable, descending.
RECURSIVE SortDiffsDesc(_)
InsertDiffDesc(sorted, d) ==
    LET keep == {i \in 1..Len(sorted) : sorted[i].start_line >= d.start_line}
        n == Cardinality(keep)
    IN SubSeq(sorted, 1, n) \o <<d>> \o SubSeq(sorted, n + 1, Len(sorted))
SortDiffsDesc(diffs) ==
    IF diffs = <<>> THEN <<>>
    ELSE InsertDiffDesc(SortDiffsDesc(SubSeq(diffs, 1, Len(diffs) - 1)),
                        diffs[Len(diffs)])

\* Mutation of ApplyOneDiff: a range that is inverted is not skipped, the
\* slice assignment puts the new lines in at its start.
ApplyInvertedToo(lines, diff) ==
    LET start_line == diff.start_line - 1
        end_line == diff.end_line
        new_content_lines == SplitLines(diff.new_content)
        from == IF start_line > Len(lines) THEN Len(lines) ELSE start_line
        to == IF end_line < from THEN from ELSE end_line
    IN IF start_line < 0 \/ end_line > Len(lines)
       THEN lines
       ELSE SubSeq(lines, 1, from) \o new_content_lines
            \o SubSeq(lines, to + 1, Len(lines))

\* One iteration of the loop of _apply_line_diffs over the sorted diffs.
ApplyOneDiff(lines, diff) ==
    LET start_line == diff.start_line - 1
        end_line == diff.end_line
        new_content_lines == SplitLines(diff.new_content)
    IN IF start_line < 0 \/ end_line > Len(lines) \/ start_line >= end_line
       THEN lines
       ELSE SubSeq(lines, 1, start_line) \o new_content_lines
            \o SubSeq(lines, end_line + 1, Len(lines))

RECURSIVE ApplyDiffs(_, _)
ApplyDiffs(lines, diffs) ==
    IF diffs = <<>> THEN lines
    ELSE ApplyDiffs(ApplyOneDiff(lines, Head(diffs)), Tail(diffs))

RECURSIVE NewContents(_)
NewContents(diffs) ==
    IF diffs = <<>> THEN <<>>
    ELSE <<Head(diffs).new_content>> \o NewContents(Tail(diffs))

\* ProjectBuilder._apply_line_diffs
ApplyLineDiffs(dir, path, diffs) ==
    IF ~FileExists(dir, path)
    THEN WriteText(dir, path, JoinLines(NewContents(diffs)))
    ELSE WriteText(dir, path,
             JoinLines(ApplyDiffs(SplitLines(dir.files[path]), SortDiffsDesc(diffs))))

\* A path no instruction gives (the 'path' key is missing or empty), and an
\* element of the list that is no JSON object (using it raises).
NoPath == ""
NotAnObject == "<not-an-object>"

\* A text that json.loads reads as an object whose 'content' is a text: the
\* mark of such an object followed by the inner text.
ContentObject(text) == <<-2>> \o text
IsContentObject(content) == content # <<>> /\ Head(content) = -2

\* ProjectBuilder._sanitize_requirements_content: the content of a file
\* named requirements.txt that is such an object is replaced by the inner text.
SanitizeRequirementsContent(file_path_str, content) ==
    IF file_path_str # "requirements.txt" THEN content
    ELSE IF IsContentObject(content) THEN Tail(content)
    ELSE content

\* The loop body of build_project_structure for one file_info.
WriteFileInfo(dir, file_info) ==
    IF file_info.path = NoPath THEN dir
    ELSE WriteText(dir, file_info.path,
                   SanitizeRequirementsContent(file_info.path, file_info.content))

\* ProjectBuilder.build_project_structure: [ok, dir].  The target is removed
\* and recreated, the files are written in order; an element that raises
\* ends the build with what was written so far.
RECURSIVE WriteFiles(_, _)
WriteFiles(dir, files) ==
    IF files = <<>> THEN [ok |-> TRUE, dir |-> dir]
    ELSE IF Head(files).path = NotAnObject THEN [ok |-> FALSE, dir |-> dir]
    ELSE WriteFiles(WriteFileInfo(dir, Head(files)), Tail(files))

\* Mutation of CleanDirectory: an existing target is kept as it is.
KeepDirectory(base_path) == IF base_path.exists THEN base_path ELSE EmptyDir

\* Lines 57-59: an existing base_path is removed, then it is made anew.
CleanDirectory(base_path) == EmptyDir

BuildProjectStructure(base_path, files) == WriteFiles(CleanDirectory(base_path), files)

\* Mutation of ApplyInstruction: an unknown tag writes the content it
\* carries, a delete_file of a missing path makes the file.
ApplyUnknownAsWrite(dir, ins) ==
    IF ins.path = NoPath THEN dir
    ELSE IF ins.type = "line_diff" THEN ApplyLineDiffs(dir, ins.path, ins.diffs)
    ELSE IF ins.type = "delete_file"
         THEN (IF FileExists(dir, ins.path) THEN Unlink(dir, ins.path)
               ELSE WriteText(dir, ins.path, <<>>))
    ELSE WriteText(dir, ins.path, SanitizeRequirementsContent(ins.path, ins.content))

\* The loop body of apply_modifications for one instruction.
ApplyInstruction(dir, ins) ==
    IF ins.path = NoPath THEN dir
    ELSE IF ins.type \in {"replace_file", "new_file"}
         THEN WriteText(dir, ins.path, SanitizeRequirementsContent(ins.path, ins.content))
    ELSE IF ins.type = "line_diff" THEN ApplyLineDiffs(dir, ins.path, ins.diffs)
    ELSE IF ins.type = "delete_file"
         THEN (IF FileExists(dir, ins.path) THEN Unlink(dir, ins.path) ELSE dir)
    ELSE dir

RECURSIVE ApplyInstructions(_, _)
ApplyInstructions(dir, instructions) ==
    IF instructions = <<>> THEN [ok |-> TRUE, dir |-> dir]
    ELSE IF Head(instructions).path = NotAnObject THEN [ok |-> FALSE, dir |-> dir]
    ELSE ApplyInstructions(ApplyInstruction(dir, Head(instructions)),
                           Tail(instructions))

\* Mutation of FreshCopy: the base is copied over what the target holds.
MergedCopy(base, target) ==
    IF ~target.exists THEN (IF base.exists THEN CopyTree(base) ELSE EmptyDir)
    ELSE [exists |-> TRUE,
          files |-> [p \in AllPaths |-> IF base.exists /\ base.files[p] # Absent
                                        THEN base.files[p] ELSE target.files[p]]]

\* What apply_modifications starts from (lines 96-103): the target is
\* removed when it exists, then the base is copied when it is a directory,
\* else an empty target is made.
FreshCopy(base, target) == IF base.exists THEN CopyTree(base) ELSE EmptyDir

\* ProjectBuilder.apply_modifications: [ok, dir].
ApplyModifications(base, target, instructions) ==
    ApplyInstructions(FreshCopy(base, target), instructions)

\* --------------------------------------------------- the task-list document
\* tasks_data['steps']: a sequence of steps, each with its step_number, its
\* list of dependencies and its step_type.
StepTypes == {"feature_development", "refactoring"}

\* Dependency lists over the ids 1..n and the id n+1 of no step: empty, one
\* id, one id listed twice, two ids, an id followed by the id of no step.
DepLists(n) ==
    {<<>>} \cup {<<d>> : d \in 1..(n + 1)}
    \cup UNION {{<<d, e>> : e \in d..(n + 1)} : d \in 1..n}

\* The orders in which n steps can be listed in the document.
Orders(n) == {o \in [1..n -> 1..n] : \A i, j \in 1..n : i # j => o[i] # o[j]}

\* The document that lists the steps o[1], o[2], ... with their fields.
TaskDoc(n, o, deps, types) ==
    [i \in 1..n |-> [step_number |-> o[i], dependencies |-> deps[o[i]],
                     step_type |-> types[o[i]]]]

\* steps = {step['step_number']: step for step in tasks_data['steps']}
StepNumbers(doc) == {doc[i].step_number : i \in DOMAIN doc}
StepOf(doc, n) == doc[CHOOSE i \in DOMAIN doc : doc[i].step_number = n]

\* Mutation of Count: an id listed more than once is counted once.
CountOnce(seq, x) == IF \E i \in DOMAIN seq : seq[i] = x THEN 1 ELSE 0
Count(seq, x) == Cardinality({i \in DOMAIN seq : seq[i] = x})
Range(seq) == {seq[i] : i \in DOMAIN seq}
Repeat(x, k) == [i \in 1..k |-> x]

\* Mutation of HasDanglingDependency: only the first listed id is looked up.
FirstDependencyDangling(doc) ==
    \E i \in DOMAIN doc :
        doc[i].dependencies # <<>> /\ doc[i].dependencies[1] \notin StepNumbers(doc)
\* A dependency that is not a key of adj_list (line 262).
HasDanglingDependency(doc) ==
    \E i \in DOMAIN doc : \E j \in DOMAIN doc[i].dependencies :
        doc[i].dependencies[j] \notin StepNumbers(doc)

\* Mutation of InDegreeOf: a step's own id is not counted.
InDegreeIgnoringSelf(step) ==
    Cardinality({i \in DOMAIN step.dependencies : step.dependencies[i] # step.step_number})
\* in_degree[step_num] = len(dependencies)
InDegreeOf(step) == Len(step.dependencies)

\* adj_list[dep_num]: step_num is appended once for every time dep_num is
\* listed in its dependencies, the steps taken in document order.
RECURSIVE AdjListOf(_, _)
AdjListOf(doc, dep_num) ==
    IF doc = <<>> THEN <<>>
    ELSE Repeat(Head(doc).step_number, Count(Head(doc).dependencies, dep_num))
         \o AdjListOf(Tail(doc), dep_num)

\* deque([step_num for step_num, degree in in_degree.items() if degree == 0])
RECURSIVE InitialQueue(_)
InitialQueue(doc) ==
    IF doc = <<>> THEN <<>>
    ELSE (IF InDegreeOf(Head(doc)) = 0 THEN <<Head(doc).step_number>> ELSE <<>>)
         \o InitialQueue(Tail(doc))

\* Mutation of Unlocked: one dependency may still be open.
UnlockedEarly(degree) == degree <= 1
\* if in_degree[dependent_step_num] == 0 (line 291)
Unlocked(degree) == degree = 0

\* The loop over adj_list[step_number] after a success (lines 289-293):
\* [in_degree, queue].
RECURSIVE UnlockDependents(_, _, _)
UnlockDependents(deg, q, dependents) ==
    IF dependents = <<>> THEN [in_degree |-> deg, queue |-> q]
    ELSE LET d == Head(dependents)
             deg2 == [deg EXCEPT ![d] = deg[d] - 1]
         IN UnlockDependents(deg2,
                             IF Unlocked(deg2[d]) THEN Append(q, d) ELSE q,
                             Tail(dependents))

\* execute_step's dispatch (lines 61-66).
StepKind(step) ==
    IF step.dependencies = <<>> /\ step.step_type = "feature_development"
    THEN "initial" ELSE "modification"

\* ------------------------------------------------------- generator outputs
\* What LLMInterface.generate_response(expect_json=True) can hand back for a
\* code-generation prompt: a JSON value that is an object or not, with some
\* keys; 'files' / 'modifications' hold the payload, 'usage_guide' is an
\* object or some other JSON value, 'tests_to_run' a list of paths.
\* A JSON decode error is the object {"error", "message", "original_response"}.
FilesMenu(t) ==
    << <<[path |-> "a.py", content |-> <<t, NL, t>>]>>,
       <<[path |-> "a.py", content |-> <<t>>],
         [path |-> "requirements.txt", content |-> <<7>>]>>,
       <<[path |-> NotAnObject, content |-> <<>>]>> >>

Instruction(type, path, content, diffs) ==
    [type |-> type, path |-> path, content |-> content, diffs |-> diffs]

ModificationsMenu(t) ==
    << <<Instruction("new_file", "b.py", <<t>>, <<>>)>>,
       <<Instruction("line_diff", "a.py", <<>>,
             <<[start_line |-> 1, end_line |-> 1, new_content |-> <<10 + t>>]>>)>>,
       <<Instruction("delete_file", "a.py", <<>>, <<>>)>>,
       <<Instruction("new_file", NotAnObject, <<>>, <<>>)>> >>

Response(is_dict, keys, files, mods, guide, tests) ==
    [is_dict |-> is_dict, keys |-> keys, files |-> files, modifications |-> mods,
     usage_guide |-> guide, tests_to_run |-> tests]

NoResponse == Response(FALSE, {}, <<>>, <<>>, "none", <<>>)

NotAnObjectResponse == Response(FALSE, {}, <<>>, <<>>, "none", <<>>)
DecodeErrorResponse ==
    Response(TRUE, {"error", "message", "original_response"}, <<>>, <<>>, "none", <<>>)
NoGuideResponse == Response(TRUE, {"files", "modifications"}, <<>>, <<>>, "none", <<>>)

InitialResponses(e, t) ==
    e.malformed \cup
    { Response(TRUE, {"files", "usage_guide"} \cup (IF tests = <<>> THEN {} ELSE {"tests_to_run"}),
               FilesMenu(t)[f], <<>>, guide, tests) :
        f \in e.files, guide \in e.guides, tests \in e.tests }

ModificationResponses(e, t) ==
    e.malformed \cup
    { Response(TRUE, {"modifications", "usage_guide"} \cup (IF tests = <<>> THEN {} ELSE {"tests_to_run"}),
               <<>>, ModificationsMenu(t)[m], guide, tests) :
        m \in e.modifications, guide \in e.guides, tests \in e.tests }

\* StepHandler._validate_initial_code_response: [ok, msg]
ValidateInitialCodeResponse(r) ==
    IF ~r.is_dict THEN [ok |-> FALSE, msg |-> "response is not a JSON object"]
    ELSE IF "files" \notin r.keys THEN [ok |-> FALSE, msg |-> "missing 'files' key"]
    ELSE IF "usage_guide" \notin r.keys
         THEN [ok |-> FALSE, msg |-> "missing 'usage_guide' object"]
    ELSE [ok |-> TRUE, msg |-> ""]

\* StepHandler._validate_modification_instructions_response: [ok, msg]
ValidateModificationInstructionsResponse(r) ==
    IF ~r.is_dict THEN [ok |-> FALSE, msg |-> "response is not a JSON object"]
    ELSE IF "modifications" \notin r.keys
         THEN [ok |-> FALSE, msg |-> "missing 'modifications' key"]
    ELSE IF "usage_guide" \notin r.keys
         THEN [ok |-> FALSE, msg |-> "missing 'usage_guide' object"]
    ELSE [ok |-> TRUE, msg |-> ""]

\* ------------------------------------------------------ feedback messages
\* A message is a text, kept as the sequence of its pieces.
Delimiter == "---"
ShapeFeedbackPrefix == "JSON format error: "
ShapeFeedback(error_msg) == <<ShapeFeedbackPrefix, error_msg>>
InitialBuildFeedback == <<"cannot build the file structure from your JSON">>
ModificationBuildFeedback == <<"applying your modification instructions failed">>
InspectorFeedback(text) == <<"[inspector feedback]:", text>>
InstallFeedback(stderr) ==
    <<"dependency install failed, fix requirements.txt, log:", Delimiter, stderr, Delimiter>>
TestFeedback(output) == <<"automated tests failed, pytest output:", Delimiter, output, Delimiter>>
UserFeedback(text) == <<"[user feedback]:", text>>

\* Mutation of AppendFeedback: the newest message is put first.
PrependFeedback(log, msg) == <<msg>> \o log
\* cumulative_feedback.append(msg)
AppendFeedback(log, msg) == Append(log, msg)

\* "\n---\n".join(cumulative_feedback)
RECURSIVE JoinFeedback(_)
JoinFeedback(log) ==
    IF log = <<>> THEN <<>>
    ELSE IF Len(log) = 1 THEN log[1]
    ELSE log[1] \o <<Delimiter>> \o JoinFeedback(Tail(log))

\* Mutation of FeedbackSection: only the newest message is shown.
LastFeedbackOnly(log) ==
    IF log = <<>> THEN <<>> ELSE <<"your previous attempts failed, analyse the failure history">> \o log[Len(log)]

\* feedback_section of the prompt (lines 154-156 and 217-219).
FeedbackHeader == "your previous attempts failed, analyse the failure history"
FeedbackSection(log) ==
    IF log = <<>> THEN <<>> ELSE <<FeedbackHeader>> \o JoinFeedback(log)

\* ------------------------------------------------------ dependency manifest
\* Package names as texts: 5 alone is a standard module ("re"), 5 6 a
\* third-party package whose name begins with it ("requests"), 7 a
\* third-party package ("flask").
STANDARD_LIBS == {<<5>>}
StartsWith(line, lib) == Len(line) >= Len(lib) /\ SubSeq(line, 1, Len(lib)) = lib

\* In a line, 9 is white space, 4 a version specifier ("==1.0"), and a
\* number above 100 the upper-case spelling of the number 100 below it.
Blank == 9
VersionSpecifier == 4
UpperCase == 100

\* str.strip() and str.lower()
RECURSIVE LStrip(_)
LStrip(line) ==
    IF line # <<>> /\ Head(line) = Blank THEN LStrip(Tail(line)) ELSE line
RECURSIVE RStrip(_)
RStrip(line) ==
    IF line # <<>> /\ line[Len(line)] = Blank
    THEN RStrip(SubSeq(line, 1, Len(line) - 1)) ELSE line
Strip(line) == RStrip(LStrip(line))
Lower(line) == [i \in DOMAIN line |-> IF line[i] > UpperCase THEN line[i] - UpperCase ELSE line[i]]

\* The condition of the list comprehension (lines 285-287).
IsKept(line) ==
    Strip(line) # <<>> /\ ~\E lib \in STANDARD_LIBS : StartsWith(Lower(Strip(line)), lib)

RECURSIVE SanitizedLines(_)
SanitizedLines(lines) ==
    IF lines = <<>> THEN <<>>
    ELSE (IF IsKept(Head(lines)) THEN <<Head(lines)>> ELSE <<>>)
         \o SanitizedLines(Tail(lines))

\* StepHandler._sanitize_dependency_file on an existing file.
SanitizeDependencyFile(dir, path) ==
    LET lines == SplitLines(dir.files[path])
        sanitized_lines == SanitizedLines(lines)
    IN IF Len(sanitized_lines) < Len(lines)
       THEN WriteText(dir, path, JoinLines(sanitized_lines) \o <<NL>>)
       ELSE dir

\* ----------------------------------------------------------- artifact store
\* shutil.copytree(src, dst) under a fault: the destination is copied, or is
\* not created, or is created with the files whose copy failed missing.
PresentPaths(dir) == {p \in AllPaths : dir.files[p] # Absent}
Without(dir, missing) ==
    [exists |-> TRUE, files |-> [p \in AllPaths |-> IF p \in missing THEN Absent
                                                     ELSE dir.files[p]]]
CopyOutcomes(src, faults) ==
    (IF "copied" \in faults THEN {[raised |-> FALSE, dir |-> CopyTree(src)]} ELSE {})
    \cup (IF "not_created" \in faults THEN {[raised |-> TRUE, dir |-> NoDir]} ELSE {})
    \cup (IF "files_missing" \in faults
          THEN {[raised |-> TRUE, dir |-> Without(src, {p})] : p \in PresentPaths(src)}
          ELSE {})

\* Mutation of MarkStepAsSuccessful: a failed copy is not re-raised.
MarkSwallowingErrors(attempt, latest, faults) ==
    { [raised |-> FALSE, snapshot |-> s.dir, latest |-> latest] :
        s \in {c \in CopyOutcomes(attempt, faults) : c.raised} }
    \cup { [raised |-> FALSE, snapshot |-> CopyTree(attempt), latest |-> l.dir] :
             l \in CopyOutcomes(attempt, faults) }
\* ProjectState.mark_step_as_successful(step_number, successful_attempt_path):
\* the outcomes [raised, snapshot, latest] of the two remove-and-copy steps.
\* Step 1 replaces successful_steps/step_n, step 2 replaces
\* latest_successful_code; an error in step 1 is re-raised before step 2.
MarkStepAsSuccessful(attempt, latest, faults) ==
    { [raised |-> TRUE, snapshot |-> s.dir, latest |-> latest] :
        s \in {c \in CopyOutcomes(attempt, faults) : c.raised} }
    \cup { [raised |-> l.raised, snapshot |-> CopyTree(attempt), latest |-> l.dir] :
             l \in CopyOutcomes(attempt, faults) }

\* ProjectState.save_step_summary: the summary file in the step's snapshot.
SaveStepSummary(snapshot, summary) == WriteText(snapshot, STEP_SUMMARY_FILENAME, summary)

\* Mutation of SaveArchitectureNotes: the file is opened for writing, the new
\* note replaces what it held.
OverwriteArchitectureNotes(notes, new_notes) ==
    <<Delimiter, "note time", Delimiter, new_notes>>

\* ProjectState.save_architecture_notes: a rule, the time of the note, a rule
\* and the notes are appended to the file.
SaveArchitectureNotes(notes, new_notes) ==
    notes \o <<Delimiter, "note time", Delimiter, new_notes>>

\* -------------------------------------------------------------------- state
VARIABLES
    task_doc,              \* tasks_data['steps'] as loaded from task_steps.json
    max_attempts,          \* StepHandler.max_attempts
    env,                   \* what the generator, reviewer, installer, human and disk can answer
    pc,                    \* where the control thread is
    in_degree,             \* run_steps_execution_phase: in_degree
    adj_list,              \* run_steps_execution_phase: adj_list
    queue,                 \* run_steps_execution_phase: queue
    completed_steps,       \* run_steps_execution_phase: completed_steps
    phase_result,          \* what run_steps_execution_phase returned
    step_number,           \* the step execute_step was called for
    step_kind,             \* which of the two attempt loops runs it
    attempt_number,        \* attempt_number of the running loop
    cumulative_feedback,   \* cumulative_feedback of the running loop
    feedback_section,      \* feedback_section of the last prompt sent
    llm_response,          \* the validated response of the current attempt
    step_result,           \* what execute_step returned
    attempt_dirs,          \* generated_code/step_n_attempts/attempt_m of the running step
    latest_successful_code,\* the latest_successful_code directory
    successful_steps,      \* successful_steps/step_n
    architecture_notes,    \* architecture_notes.md
    started,               \* history: the steps execute_step was called for, in order
    generator_calls,       \* history: code-generation calls made for the running step
    failure_log,           \* history: the message each failed attempt of the running step ended with
    gates_run,             \* history: the gates the running step has gone through
    gate_log,              \* history: the gates the running attempt went through, with what each met
    accepted,              \* history: per accepted step, its response, base and tree
    base_path,             \* the directory a builder call is given
    build_files,           \* the file list a build is given
    line_diffs,            \* the diffs a line_diff instruction carries
    build_log,             \* history: what each build of base_path found and left
    edit_log,              \* history: what the line_diff instruction found and left
    modify_log,            \* history: what apply_modifications found and left
    instructions,          \* the instruction list apply_modifications is given
    sanitize_log,          \* history: what _sanitize_dependency_file found and left
    provider_call,         \* one GeminiProvider.generate_response call: its loop and history
    subprocess_run         \* one subprocess run for a gate: the child and what the gate got

\* The inputs and histories of components called on their own.
callVars == <<instructions, sanitize_log, provider_call, subprocess_run>>

vars == <<task_doc, max_attempts, env, pc, in_degree, adj_list, queue, completed_steps,
          phase_result, step_number, step_kind, attempt_number, cumulative_feedback,
          feedback_section, llm_response, step_result, attempt_dirs,
          latest_successful_code, successful_steps, architecture_notes, started,
          generator_calls, failure_log, gates_run, gate_log, accepted,
          base_path, build_files, line_diffs, build_log, edit_log, modify_log,
          callVars>>

schedulerVars == <<in_degree, adj_list, queue, completed_steps, phase_result>>
storeVars == <<attempt_dirs, latest_successful_code, successful_steps, architecture_notes>>
inputVars == <<task_doc, max_attempts, env>>
builderVars == <<base_path, build_files, line_diffs, build_log, edit_log, modify_log>>

\* The workspace ProjectState.initialize_workspace creates: an empty
\* latest_successful_code, no snapshot, no attempt directory, empty notes.
Workspace ==
    /\ pc = "graph"
    /\ in_degree = <<>>
    /\ adj_list = <<>>
    /\ queue = <<>>
    /\ completed_steps = {}
    /\ phase_result = "running"
    /\ step_number = 0
    /\ step_kind = "none"
    /\ attempt_number = 0
    /\ cumulative_feedback = <<>>
    /\ feedback_section = <<>>
    /\ llm_response = NoResponse
    /\ step_result = "none"
    /\ attempt_dirs = [k \in 1..max_attempts |-> NoDir]
    /\ latest_successful_code = EmptyDir
    /\ successful_steps = [n \in StepNumbers(task_doc) |-> NoDir]
    /\ architecture_notes = <<>>
    /\ started = <<>>
    /\ generator_calls = 0
    /\ failure_log = <<>>
    /\ gates_run = {}
    /\ gate_log = <<>>
    /\ accepted = <<>>

\* No builder call is made on its own in runs of the engine.
IdleBuilder ==
    /\ base_path = NoDir
    /\ build_files = <<>>
    /\ line_diffs = <<>>
    /\ build_log = <<>>
    /\ edit_log = <<>>
    /\ modify_log = <<>>

\* No call of the provider is under way.
NoCall == [pc |-> "idle"]

\* No component is called on its own.
IdleCalls ==
    /\ instructions = <<>>
    /\ sanitize_log = <<>>
    /\ provider_call = NoCall
    /\ subprocess_run = NoCall

\* The answers of the surroundings in runs of the scheduler: the generator
\* answers with a well-formed payload, with a value that is no object or with
\* an object lacking 'usage_guide', or raises; the reviewer approves or
\* rejects; the human answers Y, N, S or A; a copy succeeds or fails.
SchedulerEnv ==
    [malformed |-> {NotAnObjectResponse, NoGuideResponse},
     files |-> {1}, modifications |-> {1, 2},
     guides |-> {"object"}, tests |-> {<<>>},
     generator |-> {"answers", "raises"}, save |-> {"saved"},
     inspection |-> {"approved", "rejected"},
     install |-> {"installed"}, pytest |-> {0},
     human |-> {"y", "n", "s", "a"},
     copy |-> {"copied", "not_created", "files_missing"},
     summary |-> {"saved"}]

Init ==
    /\ \E n \in 0..MaxTasks : \E o \in Orders(n) : \E deps \in [1..n -> DepLists(n)] :
         task_doc = TaskDoc(n, o, deps, [i \in 1..n |-> "feature_development"])
    /\ max_attempts \in 1..MaxAttempts
    /\ env = SchedulerEnv
    /\ Workspace
    /\ IdleBuilder
    /\ IdleCalls

\* ---------------------------------------------------------------- scheduler
\* run_steps_execution_phase, lines 223-273: an empty document returns True;
\* the graph is built; a dependency that is no step returns False.
BuildGraph ==
    /\ pc = "graph"
    /\ IF task_doc = <<>>
       THEN /\ pc' = "done"
            /\ phase_result' = "success"
            /\ UNCHANGED <<in_degree, adj_list, queue>>
       ELSE IF HasDanglingDependency(task_doc)
       THEN /\ pc' = "done"
            /\ phase_result' = "failure"
            /\ UNCHANGED <<in_degree, adj_list, queue>>
       ELSE /\ in_degree' = [n \in StepNumbers(task_doc) |-> InDegreeOf(StepOf(task_doc, n))]
            /\ adj_list' = [n \in StepNumbers(task_doc) |-> AdjListOf(task_doc, n)]
            /\ queue' = InitialQueue(task_doc)
            /\ pc' = "schedule"
            /\ UNCHANGED phase_result
    /\ UNCHANGED <<inputVars, builderVars, callVars, completed_steps, step_number, step_kind, attempt_number,
                   cumulative_feedback, feedback_section, llm_response, step_result,
                   storeVars, started, generator_calls, failure_log, gates_run, gate_log, accepted>>

\* The prelude of _execute_modification_step (line 202): it needs the
\* latest_successful_code directory to exist.
ModificationCanStart == latest_successful_code.exists

\* lines 275-282: the next step is taken from the left of the queue and
\* execute_step dispatches it to one of the two attempt loops.
ExecuteStep ==
    /\ pc = "schedule"
    /\ queue # <<>>
    /\ LET n == Head(queue)
           kind == StepKind(StepOf(task_doc, n))
       IN /\ queue' = Tail(queue)
          /\ step_number' = n
          /\ step_kind' = kind
          /\ started' = Append(started, n)
          /\ IF kind = "modification" /\ ~ModificationCanStart
             THEN pc' = "result" /\ step_result' = "aborted"
             ELSE pc' = "attempt" /\ step_result' = "none"
    /\ attempt_number' = 0
    /\ cumulative_feedback' = <<>>
    /\ feedback_section' = <<>>
    /\ generator_calls' = 0
    /\ failure_log' = <<>>
    /\ gates_run' = {}
    /\ gate_log' = <<>>
    /\ attempt_dirs' = [k \in 1..max_attempts |-> NoDir]
    /\ UNCHANGED <<inputVars, builderVars, callVars, in_degree, adj_list, completed_steps, phase_result,
                   llm_response, latest_successful_code, successful_steps,
                   architecture_notes, accepted>>

\* Mutation of IsSuccess: every result that does not end the run counts.
NotStopped(result) == result \notin {"aborted", "skipped"}

\* Mutation of IsTerminal: only 'skipped' ends the run.
IsSkipped(result) == result = "skipped"
\* What the scheduler does with the result of execute_step (lines 284-299).
IsSuccess(result) == result = "success"
IsTerminal(result) == result = "aborted" \/ result = "skipped"

\* Mutation of PartialResult: a run that was ended early has failed.
EndedEarlyIsFailure(completed) == "failure"

\* return len(completed_steps) > 0 (line 299)
PartialResult(completed) == IF Cardinality(completed) > 0 THEN "success" ELSE "failure"

HandleResult ==
    /\ pc = "result"
    /\ IF IsSuccess(step_result)
       THEN LET u == UnlockDependents(in_degree, queue, adj_list[step_number])
            IN /\ completed_steps' = completed_steps \cup {step_number}
               /\ in_degree' = u.in_degree
               /\ queue' = u.queue
               /\ pc' = "schedule"
               /\ UNCHANGED phase_result
       ELSE IF IsTerminal(step_result)
       THEN /\ phase_result' = PartialResult(completed_steps)
            /\ pc' = "done"
            /\ UNCHANGED <<in_degree, queue, completed_steps>>
       ELSE /\ pc' = "schedule"
            /\ UNCHANGED <<in_degree, queue, completed_steps, phase_result>>
    /\ UNCHANGED <<inputVars, builderVars, callVars, adj_list, step_number, step_kind, attempt_number,
                   cumulative_feedback, feedback_section, llm_response, step_result,
                   storeVars, started, generator_calls, failure_log, gates_run, gate_log, accepted>>

\* main_workflow: run_finalization_phase is called when the execution phase
\* returned True.
FinalizationRuns(result) == result = "success"

\* len(completed_steps) == total_steps (line 301)
FinalResult(completed, doc) ==
    IF Cardinality(completed) = Cardinality(StepNumbers(doc)) THEN "success" ELSE "failure"

\* lines 301-308: the queue is empty.
PhaseEnd ==
    /\ pc = "schedule"
    /\ queue = <<>>
    /\ phase_result' = FinalResult(completed_steps, task_doc)
    /\ pc' = "done"
    /\ UNCHANGED <<inputVars, builderVars, callVars, in_degree, adj_list, queue, completed_steps, step_number,
                   step_kind, attempt_number, cumulative_feedback, feedback_section,
                   llm_response, step_result, storeVars, started, generator_calls,
                   failure_log, gates_run, gate_log, accepted>>

\* -------------------------------------------------------------- attempt loop
AttemptDir == attempt_dirs[attempt_number]
SetAttemptDir(dir) == attempt_dirs' = [attempt_dirs EXCEPT ![attempt_number] = dir]

\* ProjectState.get_step_attempt_path: the directory is made when missing.
GetStepAttemptPath(dir) == IF dir.exists THEN dir ELSE EmptyDir

\* The attempt failed with a message: it is appended to cumulative_feedback
\* and the loop goes back to its condition (continue / fall through).
Retry(msg) ==
    /\ cumulative_feedback' = AppendFeedback(cumulative_feedback, msg)
    /\ failure_log' = Append(failure_log, msg)
    /\ pc' = "attempt"
    /\ llm_response' = NoResponse
    /\ UNCHANGED step_result

\* Mutation of OnException: the loop reports the attempt as failed.
OnExceptionFailure == "failure"

\* except Exception: return 'aborted', None (lines 191-193 and 260-262).
OnException == "aborted"

\* The loop returns `result` to the scheduler.
Return(result) ==
    /\ step_result' = result
    /\ pc' = "result"
    /\ llm_response' = NoResponse
    /\ UNCHANGED <<cumulative_feedback, failure_log>>

\* The gate passed: on to the next one.
Pass(next) ==
    /\ pc' = next
    /\ UNCHANGED <<cumulative_feedback, failure_log, step_result, llm_response>>

Responses(kind, t) ==
    IF kind = "initial" THEN InitialResponses(env, t) ELSE ModificationResponses(env, t)
Validate(kind, r) ==
    IF kind = "initial" THEN ValidateInitialCodeResponse(r)
    ELSE ValidateModificationInstructionsResponse(r)

\* The text of code_generation_output.json of an attempt.
RawOutput(n, k) == <<100 + 10 * n + k>>

\* while attempt_number < self.max_attempts (lines 149 and 212)
LoopContinues(attempt, cap) == attempt < cap

\* Lines 150-170 and 213-238: the prompt is built with the feedback section,
\* the generator is called, its response validated and saved.  A call that
\* raises, or a save that raises, reaches the loop's except: 'aborted'.
Generate ==
    /\ pc = "attempt"
    /\ LoopContinues(attempt_number, max_attempts)
    /\ attempt_number' = attempt_number + 1
    /\ feedback_section' = FeedbackSection(cumulative_feedback)
    /\ generator_calls' = generator_calls + 1
    /\ gate_log' = <<>>
    /\ \E g \in env.generator, r \in Responses(step_kind, step_number), s \in env.save :
         LET v == Validate(step_kind, r)
             k == attempt_number + 1
         IN IF g = "raises"
            THEN /\ Return(OnException)
                 /\ UNCHANGED attempt_dirs
            ELSE IF ~v.ok
            THEN /\ Retry(ShapeFeedback(v.msg))
                 /\ UNCHANGED attempt_dirs
            ELSE IF s = "raises"
            THEN /\ attempt_dirs' = [attempt_dirs EXCEPT ![k] = GetStepAttemptPath(@)]
                 /\ Return(OnException)
            ELSE /\ attempt_dirs' = [attempt_dirs EXCEPT ![k] =
                        WriteText(GetStepAttemptPath(@), STEP_CODE_OUTPUT_FILENAME,
                                  RawOutput(step_number, k))]
                 /\ llm_response' = r
                 /\ pc' = "build"
                 /\ UNCHANGED <<cumulative_feedback, failure_log, step_result>>
    /\ UNCHANGED <<inputVars, builderVars, callVars, schedulerVars, step_number, step_kind,
                   latest_successful_code, successful_steps, architecture_notes,
                   started, gates_run, accepted>>

\* Lines 194 and 263: the loop condition fails.
LoopExhausted ==
    /\ pc = "attempt"
    /\ ~LoopContinues(attempt_number, max_attempts)
    /\ Return("aborted")
    /\ UNCHANGED <<inputVars, builderVars, callVars, schedulerVars, step_number, step_kind, attempt_number,
                   feedback_section, storeVars, started, generator_calls, gates_run, gate_log,
                   accepted>>

\* The tree a modification attempt starts from (lines 199 and 240).
ModificationBase == latest_successful_code

\* Lines 171-177 and 239-246: the attempt's tree is built.
BuildTree ==
    /\ pc = "build"
    /\ LET built == IF step_kind = "initial"
                    THEN BuildProjectStructure(AttemptDir, llm_response.files)
                    ELSE ApplyModifications(ModificationBase, AttemptDir,
                                            llm_response.modifications)
           msg == IF step_kind = "initial" THEN InitialBuildFeedback
                  ELSE ModificationBuildFeedback
       IN /\ SetAttemptDir(built.dir)
          /\ IF built.ok THEN Pass("inspect") ELSE Retry(msg)
    /\ UNCHANGED <<inputVars, builderVars, callVars, schedulerVars, step_number, step_kind, attempt_number,
                   feedback_section, latest_successful_code, successful_steps,
                   architecture_notes, started, generator_calls, gates_run, gate_log, accepted>>

\* ------------------------------------------------------- verification gates
gateFrame == <<inputVars, builderVars, callVars, schedulerVars, step_number, step_kind, attempt_number,
               feedback_section, started, generator_calls, accepted>>

\* The gate is entered in the histories with what it met.
LogGate(gate, outcome) ==
    /\ gates_run' = gates_run \cup {gate}
    /\ gate_log' = Append(gate_log, [gate |-> gate, outcome |-> outcome])

\* Mutation of IsApproved: every answer that has the 'approved' key passes.
HasApprovedKey(review) == review # "invalid"

\* is_approved (lines 123 and 127 of _run_inspection).
IsApproved(review) == review \in {"approved", "approved_with_notes"}

\* What save_inspector_feedback is given (line 126): the feedback of the
\* review, or the text "review passed" (1) when the review has no feedback,
\* whether it approves or rejects; 2 is the feedback of a rejection.
SavedInspectorFeedback(review) == IF review = "rejected" THEN <<2>> ELSE <<1>>

\* _build_and_verify lines 300-302 with _run_inspection: the review call
\* raises, answers without 'approved', approves (with or without notes to
\* add) or rejects (with or without feedback text).
RunInspection ==
    /\ pc = "inspect"
    /\ \E review \in env.inspection :
         /\ LogGate("inspect", review)
         /\ IF review = "raises"
            THEN /\ Retry(InspectorFeedback("internal error in the review"))
                 /\ UNCHANGED <<attempt_dirs, architecture_notes>>
            ELSE IF review = "invalid"
            THEN /\ Retry(InspectorFeedback("invalid review response format"))
                 /\ UNCHANGED <<attempt_dirs, architecture_notes>>
            ELSE IF IsApproved(review)
            THEN /\ SetAttemptDir(WriteText(AttemptDir, INSPECTOR_FEEDBACK_FILENAME,
                                          SavedInspectorFeedback(review)))
                 /\ architecture_notes' =
                        IF review = "approved_with_notes"
                        THEN SaveArchitectureNotes(architecture_notes, "keep the layers apart")
                        ELSE architecture_notes
                 /\ Pass("install")
            ELSE /\ SetAttemptDir(WriteText(AttemptDir, INSPECTOR_FEEDBACK_FILENAME,
                                          SavedInspectorFeedback(review)))
                 /\ Retry(InspectorFeedback(IF review = "rejected" THEN "fix the imports"
                                            ELSE "rejected without feedback"))
                 /\ UNCHANGED architecture_notes
    /\ UNCHANGED <<gateFrame, latest_successful_code, successful_steps>>

\* dependency_file_name (line 305): the response's or the default.
DependencyFileName == "requirements.txt"

\* _build_and_verify lines 305-319: an existing manifest is sanitized and,
\* when not empty, installed; the install succeeds, fails (CalledProcessError)
\* or raises something else, which the loop's except turns into 'aborted'.
InstallDependencies ==
    /\ pc = "install"
    /\ IF FileExists(AttemptDir, DependencyFileName)
       THEN LET sanitized == SanitizeDependencyFile(AttemptDir, DependencyFileName)
            IN IF sanitized.files[DependencyFileName] # <<>>
               THEN \E install \in env.install :
                      /\ LogGate("install", install)
                      /\ IF install = "installed"
                         THEN /\ SetAttemptDir(WriteText(sanitized, INSTALL_LOG_FILENAME, <<1>>))
                              /\ Pass("tests")
                         ELSE IF install = "failed"
                         THEN /\ SetAttemptDir(WriteText(sanitized, INSTALL_LOG_FILENAME, <<2>>))
                              /\ Retry(InstallFeedback("no matching distribution"))
                         ELSE /\ SetAttemptDir(sanitized)
                              /\ Return(OnException)
               ELSE /\ SetAttemptDir(sanitized)
                    /\ Pass("tests")
                    /\ UNCHANGED <<gates_run, gate_log>>
       ELSE /\ Pass("tests")
            /\ UNCHANGED <<attempt_dirs, gates_run, gate_log>>
    /\ UNCHANGED <<gateFrame, latest_successful_code, successful_steps, architecture_notes>>

\* Mutation of TestsPassed: the return code is not looked at.
AnyReturnCode(return_code) == TRUE

\* if return_code == 0 (line 81 of _run_unit_tests)
TestsPassed(return_code) == return_code = 0

\* _build_and_verify lines 320-323 with _run_unit_tests and
\* CodeRunner.run_tests: no declared test passes; a declared path that is
\* missing fails; pytest ends with return code 0 or not.
RunUnitTests ==
    /\ pc = "tests"
    /\ IF llm_response.tests_to_run = <<>>
       THEN /\ Pass("manual")
            /\ UNCHANGED <<gates_run, gate_log>>
       ELSE IF \E i \in DOMAIN llm_response.tests_to_run :
                  ~FileExists(AttemptDir, llm_response.tests_to_run[i])
       THEN /\ LogGate("tests", -1)
            /\ Retry(TestFeedback("test path does not exist"))
       ELSE \E return_code \in env.pytest :
              /\ LogGate("tests", return_code)
              /\ IF TestsPassed(return_code) THEN Pass("manual")
                 ELSE Retry(TestFeedback("1 failed"))
    /\ UNCHANGED <<gateFrame, storeVars>>

\* _build_and_verify lines 324-344 except the acceptance: the human answers
\* Y, N (with a description, a default text when empty), S or A.
\* prompt_for_manual_execution returns 'skip' and 'abort' for S and A.
HumanSkip == "skip"
HumanAbort == "abort"

\* Mutation of IsConfirmed: a reported failure is taken as a success too.
AnyReportConfirms(choice) == choice \in {"y", "n"}

\* if action == 'success' (line 334): the human answered Y.
IsConfirmed(choice) == choice = "y"

\* Mutation of HasFeedback: every answer but Y is taken as a failure report.
NotConfirmed(choice) == choice # "y"

\* if feedback (line 340): only the answer N comes with a feedback text.
HasFeedback(choice) == choice \in {"n", "n_silent"}

ManualExecution ==
    /\ pc = "manual"
    /\ IF llm_response.usage_guide # "object"
       THEN \* usage_guide.get raises AttributeError
            /\ LogGate("manual", "raises")
            /\ Return(OnException)
            /\ UNCHANGED attempt_dirs
       ELSE \E choice \in env.human :
              /\ LogGate("manual", choice)
              /\ IF IsConfirmed(choice)
                 THEN /\ Pass("mark")
                      /\ UNCHANGED attempt_dirs
                 ELSE IF HasFeedback(choice)
                 THEN /\ SetAttemptDir(WriteText(AttemptDir, USER_FEEDBACK_FILENAME, <<1>>))
                      /\ Retry(UserFeedback(IF choice = "n" THEN "it crashes"
                                            ELSE "failed, no description given"))
                 ELSE /\ Return(IF choice = "s" THEN HumanSkip ELSE HumanAbort)
                      /\ UNCHANGED attempt_dirs
    /\ UNCHANGED <<gateFrame, latest_successful_code, successful_steps, architecture_notes>>

\* StepHandler._summarize_successful_step: [ok, snapshot].  The summary call
\* answers with an object that is saved into the snapshot, raises, answers
\* with a value that is no object or is an error object, or the summary
\* cannot be saved: the file cannot be opened, or the write is cut short and
\* leaves the file with what was written (nothing).
SummaryOutcomes == {"saved", "raised", "unusable", "unsaved", "cut_short"}
SummarizeSuccessfulStep(snapshot, outcome) ==
    IF outcome = "saved" THEN [ok |-> TRUE, snapshot |-> SaveStepSummary(snapshot, <<1>>)]
    ELSE IF outcome = "cut_short"
         THEN [ok |-> FALSE, snapshot |-> SaveStepSummary(snapshot, <<>>)]
    ELSE [ok |-> FALSE, snapshot |-> snapshot]

\* Mutation of ResultAfterSummary: without a summary the attempt has failed.
FailureWithoutSummary(summarized) == IF summarized THEN "success" ELSE "failure"

\* _build_and_verify lines 337-339: a warning when there is no summary,
\* 'success' either way.
ResultAfterSummary(summarized) == "success"

\* _build_and_verify lines 334-339: mark_step_as_successful, then the
\* best-effort summary (saved or not), then 'success'; an error raised by
\* mark_step_as_successful reaches the loop's except: 'aborted'.
MarkSuccessful ==
    /\ pc = "mark"
    /\ \E m \in MarkStepAsSuccessful(AttemptDir, latest_successful_code, env.copy) :
         /\ latest_successful_code' = m.latest
         /\ IF m.raised
            THEN /\ successful_steps' = [successful_steps EXCEPT ![step_number] = m.snapshot]
                 /\ accepted' = accepted
                 /\ Return(OnException)
            ELSE \E summary \in env.summary :
                   LET s == SummarizeSuccessfulStep(m.snapshot, summary)
                   IN /\ successful_steps' = [successful_steps EXCEPT ![step_number] = s.snapshot]
                      /\ accepted' = Append(accepted, [step |-> step_number,
                                                       kind |-> step_kind,
                                                       files |-> llm_response.files,
                                                       modifications |-> llm_response.modifications,
                                                       tree |-> AttemptDir,
                                                       summary |-> summary])
                      /\ Return(ResultAfterSummary(s.ok))
    /\ UNCHANGED <<inputVars, builderVars, callVars, schedulerVars, step_number, step_kind, attempt_number,
                   feedback_section, attempt_dirs, architecture_notes, started,
                   generator_calls, gates_run, gate_log>>

Next ==
    \/ BuildGraph
    \/ ExecuteStep
    \/ HandleResult
    \/ PhaseEnd
    \/ Generate
    \/ LoopExhausted
    \/ BuildTree
    \/ RunInspection
    \/ InstallDependencies
    \/ RunUnitTests
    \/ ManualExecution
    \/ MarkSuccessful

Spec == Init /\ [][Next]_vars

\* ------------------------------------------------------------- fair runs
\* Documents whose steps can be ranked so that every dependency of a step is
\* a step of a lower rank.
RankedInit ==
    /\ \E n \in 0..MaxTasks : \E o \in Orders(n) : \E deps \in [1..n -> DepLists(n)] :
         /\ \E rank \in Orders(n) :
              \A s \in 1..n : \A j \in DOMAIN deps[s] :
                  deps[s][j] \in 1..n /\ rank[deps[s][j]] < rank[s]
         /\ task_doc = TaskDoc(n, o, deps, [i \in 1..n |-> "feature_development"])
    /\ max_attempts \in 1..MaxAttempts
    /\ env = SchedulerEnv
    /\ Workspace
    /\ IdleBuilder
    /\ IdleCalls

\* The control thread is never stopped while a step of it is enabled.
FairSpec == RankedInit /\ [][Next]_vars /\ WF_vars(Next)

\* ------------------------------------------------------ attempt-loop runs
\* Largest attempt cap in the runs that exercise one attempt loop.
MaxLoopAttempts == 3

\* The answers of the surroundings in runs of one attempt loop: every shape
\* of generator output, every verdict of every gate.
AttemptEnv ==
    [malformed |-> {NotAnObjectResponse, DecodeErrorResponse, NoGuideResponse},
     files |-> {1, 2, 3}, modifications |-> {1, 2, 3, 4},
     guides |-> {"object", "string"}, tests |-> {<<>>, <<"a.py">>},
     generator |-> {"answers", "raises"}, save |-> {"saved", "raises"},
     inspection |-> {"raises", "invalid", "approved", "approved_with_notes",
                     "rejected", "rejected_silently"},
     install |-> {"installed", "failed", "raises"}, pytest |-> {0, 1},
     human |-> {"y", "n", "n_silent", "s", "a"},
     copy |-> {"copied", "not_created"},
     summary |-> {"saved", "unusable"}]

\* One step of either type without dependencies.
AttemptInit ==
    /\ \E type \in StepTypes : task_doc = TaskDoc(1, <<1>>, <<<<>>>>, <<type>>)
    /\ max_attempts \in 1..MaxLoopAttempts
    /\ env = AttemptEnv
    /\ Workspace
    /\ IdleBuilder
    /\ IdleCalls

AttemptSpec == AttemptInit /\ [][Next]_vars

\* The control thread of one attempt loop is never stopped while a step of
\* it is enabled: every collaborator call returns.
FairAttemptSpec == AttemptInit /\ [][Next]_vars /\ WF_vars(Next)

\* ------------------------------------------------------ two-step runs
\* The answers of the surroundings in runs of two steps: the generator of a
\* fresh generation answers with one file or with a file and a manifest.
TwoStepEnv ==
    [malformed |-> {NoGuideResponse},
     files |-> {1, 2}, modifications |-> {1, 2, 3},
     guides |-> {"object"}, tests |-> {<<>>},
     generator |-> {"answers"}, save |-> {"saved"},
     inspection |-> {"approved", "approved_with_notes", "rejected"},
     install |-> {"installed"}, pytest |-> {0},
     human |-> {"y", "n"},
     copy |-> {"copied"},
     summary |-> SummaryOutcomes]

\* Step 1 without dependencies, step 2 without dependencies or depending on
\* step 1.
TwoStepInit ==
    /\ \E deps \in {<<>>, <<1>>} :
         task_doc = TaskDoc(2, <<1, 2>>, <<<<>>, deps>>,
                            <<"feature_development", "feature_development">>)
    /\ max_attempts \in 1..MaxAttempts
    /\ env = TwoStepEnv
    /\ Workspace
    /\ IdleBuilder
    /\ IdleCalls

TwoStepSpec == TwoStepInit /\ [][Next]_vars

\* ----------------------------------------------------------- builder runs
\* Largest number of entries of a file list, of lines of an edited file and
\* of diffs of a line_diff instruction; the builds made of one target.
MaxFiles == 2
MaxLines == 4
MaxDiffs == 3
MaxBuilds == 2

\* What base_path can hold before a build: nothing, an empty directory,
\* files of an earlier build, the raw output saved for the attempt.
BuildTargets ==
    {NoDir, EmptyDir, WriteText(EmptyDir, "a.py", <<5>>),
     WriteText(WriteText(EmptyDir, "b.py", <<5>>), STEP_CODE_OUTPUT_FILENAME, <<6>>)}

\* Entries of a file list: a path or none, a content that is empty, plain or
\* an object holding the content; an entry that is no JSON object.
FileInfos ==
    {[path |-> p, content |-> c] :
        p \in {"a.py", "b.py", "requirements.txt", NoPath},
        c \in {<<>>, <<1>>, ContentObject(<<7>>)}}
    \cup {[path |-> NotAnObject, content |-> <<>>]}
FileLists == UNION {[1..k -> FileInfos] : k \in 0..MaxFiles}

\* The file a line_diff instruction names, with k numbered lines.
EditedPath == "a.py"
NumberedLines(k) == [i \in 1..k |-> <<30 + i>>]
SourceTexts ==
    {JoinLines(NumberedLines(k)) : k \in 0..MaxLines}
    \cup {JoinLines(NumberedLines(MaxLines)) \o <<NL>>}
EditTargets == {WriteText(EmptyDir, EditedPath, t) : t \in SourceTexts} \cup {EmptyDir}

\* Diffs: ranges inside the file, past its end and inverted; a replacement
\* that is empty or has two lines.
Diffs ==
    UNION {{[start_line |-> s, end_line |-> e, new_content |-> c] :
               e \in (s - 1)..(s + 1), c \in {<<>>, <<50 + s, NL, 60 + s>>}} :
           s \in 1..(MaxLines + 1)}
DiffLists == UNION {[1..k -> Diffs] : k \in 0..MaxDiffs}

BuilderInit ==
    /\ task_doc = <<>>
    /\ max_attempts = 1
    /\ env = SchedulerEnv
    /\ Workspace
    /\ \/ /\ base_path \in BuildTargets
          /\ build_files \in FileLists
          /\ line_diffs = <<>>
       \/ /\ base_path \in EditTargets
          /\ build_files = <<>>
          /\ line_diffs \in DiffLists
    /\ build_log = <<>>
    /\ edit_log = <<>>
    /\ modify_log = <<>>
    /\ IdleCalls

engineVars == <<inputVars, schedulerVars, storeVars, pc, step_number, step_kind,
                attempt_number, cumulative_feedback, feedback_section, llm_response,
                step_result, started, generator_calls, failure_log, gates_run, gate_log, accepted>>

\* ProjectBuilder.build_project_structure(base_path, build_files).
BuildProject ==
    /\ Len(build_log) < MaxBuilds
    /\ LET b == BuildProjectStructure(base_path, build_files)
       IN /\ base_path' = b.dir
          /\ build_log' = Append(build_log, [before |-> base_path, ok |-> b.ok, dir |-> b.dir])
    /\ UNCHANGED <<engineVars, callVars, build_files, line_diffs, edit_log, modify_log>>

\* ProjectBuilder._apply_line_diffs(base_path / EditedPath, line_diffs), the
\* one call of the builder run.
ApplyLineDiff ==
    /\ edit_log = <<>>
    /\ modify_log = <<>>
    /\ base_path.exists
    /\ LET after == ApplyLineDiffs(base_path, EditedPath, line_diffs)
       IN /\ base_path' = after
          /\ edit_log' = <<[before |-> base_path, after |-> after]>>
    /\ UNCHANGED <<engineVars, callVars, build_files, line_diffs, build_log, modify_log>>

\* One line_diff instruction for EditedPath per diff, in the order of the list.
SeparateInstructions(diffs) ==
    [i \in DOMAIN diffs |-> Instruction("line_diff", EditedPath, <<>>, <<diffs[i]>>)]

\* ProjectBuilder.apply_modifications(base_path, target, instructions) with
\* the diffs given as separate instructions, into a target that is missing
\* or holds the files of an earlier build.
ApplySeparateEdits ==
    /\ modify_log = <<>>
    /\ edit_log = <<>>
    /\ base_path.exists
    /\ \E target \in BuildTargets :
         LET m == ApplyModifications(base_path, target, SeparateInstructions(line_diffs))
         IN modify_log' = <<[base |-> base_path, ok |-> m.ok, dir |-> m.dir]>>
    /\ UNCHANGED <<engineVars, callVars, base_path, build_files, line_diffs, build_log, edit_log>>

BuilderNext ==
    \/ BuildProject
    \/ ApplyLineDiff
    \/ ApplySeparateEdits

BuilderSpec == BuilderInit /\ [][BuilderNext]_vars

\* ----------------------------------------------------- modification builds
\* One call of apply_modifications with a list of instructions.
MaxInstructions == 3

\* The instructions of a list: files written, replaced and deleted, a line
\* edit, a tag the builder does not know (with a content), an instruction
\* without a path, an element that is no JSON object.
InstructionMenu ==
    {Instruction("new_file", "b.py", <<5>>, <<>>),
     Instruction("replace_file", "a.py", <<6>>, <<>>),
     Instruction("delete_file", "a.py", <<>>, <<>>),
     Instruction("delete_file", "b.py", <<>>, <<>>),
     Instruction("rename_file", "a.py", <<7>>, <<>>),
     Instruction("line_diff", "a.py", <<>>,
                 <<[start_line |-> 1, end_line |-> 1, new_content |-> <<8>>]>>),
     Instruction("delete_file", NoPath, <<>>, <<>>),
     Instruction("new_file", NotAnObject, <<>>, <<>>)}
InstructionLists == UNION {[1..k -> InstructionMenu] : k \in 0..MaxInstructions}

ModifyInit ==
    /\ task_doc = <<>>
    /\ max_attempts = 1
    /\ env = SchedulerEnv
    /\ Workspace
    \* the base is missing, or a tree with a.py, or with a.py and b.py
    /\ base_path \in {NoDir, WriteText(EmptyDir, "a.py", <<31, NL, 32>>),
                      WriteText(WriteText(EmptyDir, "a.py", <<31>>), "b.py", <<33>>)}
    /\ build_files = <<>>
    /\ line_diffs = <<>>
    /\ build_log = <<>>
    /\ edit_log = <<>>
    /\ modify_log = <<>>
    /\ instructions \in InstructionLists
    /\ sanitize_log = <<>>
    /\ provider_call = NoCall
    /\ subprocess_run = NoCall

\* ProjectBuilder.apply_modifications(base_path, target, instructions) into
\* a target that is missing or holds the files of an earlier build.
ApplyInstructionList ==
    /\ modify_log = <<>>
    /\ \E target \in BuildTargets :
         LET m == ApplyModifications(base_path, target, instructions)
         IN modify_log' = <<[base |-> base_path, ok |-> m.ok, dir |-> m.dir]>>
    /\ UNCHANGED <<engineVars, callVars, base_path, build_files, line_diffs, build_log, edit_log>>

ModifyNext == ApplyInstructionList

ModifySpec == ModifyInit /\ [][ModifyNext]_vars

\* ------------------------------------------------ sanitizing the manifest
\* One call of _sanitize_dependency_file on a requirements.txt.
MaxManifestLines == 3

\* Lines of a manifest: "re", "requests", "flask", "re==1.0", "requests==1.0",
\* "RE", " re", "flask ", a line of white space, an empty line.
ManifestLines ==
    {<<5>>, <<5, 6>>, <<7>>, <<5, VersionSpecifier>>, <<5, 6, VersionSpecifier>>,
     <<UpperCase + 5>>, <<Blank, 5>>, <<7, Blank>>, <<Blank>>, <<>>}
Manifests == UNION {[1..k -> ManifestLines] : k \in 0..MaxManifestLines}

SanitizeInit ==
    /\ task_doc = <<>>
    /\ max_attempts = 1
    /\ env = SchedulerEnv
    /\ Workspace
    /\ \E lines \in Manifests :
         base_path = WriteText(EmptyDir, DependencyFileName, JoinLines(lines))
    /\ build_files = <<>>
    /\ line_diffs = <<>>
    /\ build_log = <<>>
    /\ edit_log = <<>>
    /\ modify_log = <<>>
    /\ instructions = <<>>
    /\ sanitize_log = <<>>
    /\ provider_call = NoCall
    /\ subprocess_run = NoCall

\* StepHandler._sanitize_dependency_file(base_path / requirements.txt).
SanitizeManifest ==
    /\ sanitize_log = <<>>
    /\ LET after == SanitizeDependencyFile(base_path, DependencyFileName)
       IN /\ base_path' = after
          /\ sanitize_log' = <<[before |-> base_path, after |-> after]>>
    /\ UNCHANGED <<engineVars, instructions, provider_call, subprocess_run, build_files, line_diffs, build_log, edit_log, modify_log>>

SanitizeNext == SanitizeManifest

SanitizeSpec == SanitizeInit /\ [][SanitizeNext]_vars

\* ------------------------------------------------------- the provider call
\* One call of GeminiProvider.generate_response with max_retries up to
\* MaxRetries.
MaxRetries == 3

\* Mutation of LoopRuns: the loop runs once more.
LoopRunsOnceMore(attempt, max_retries) == attempt <= max_retries

\* for attempt in range(self.max_retries) (line 54)
LoopRuns(attempt, max_retries) == attempt < max_retries

\* wait_time (line 69) without its jitter.
BackoffBase(attempt) == (2 ^ attempt) * 15

\* time.sleep(5) after a response without text (line 65).
EmptyResponseWait == 5

ProviderInit ==
    /\ task_doc = <<>>
    /\ max_attempts = 1
    /\ env = SchedulerEnv
    /\ Workspace
    /\ IdleBuilder
    /\ instructions = <<>>
    /\ sanitize_log = <<>>
    /\ subprocess_run = NoCall
    /\ \E m \in 0..MaxRetries :
         provider_call = [pc |-> "request", max_retries |-> m, attempt |-> 0,
                          requests |-> 0, answers |-> <<>>, waits |-> <<>>,
                          wait_time |-> 0, last_exception |-> "none", raised |-> "none"]

\* Lines 55-76: one pass of the loop up to its return, raise or sleep.
ProviderRequest ==
    /\ provider_call.pc = "request"
    /\ LoopRuns(provider_call.attempt, provider_call.max_retries)
    \* the request meets a text, a response without text, ResourceExhaustedError
    \* or another error; random.uniform(0, 1) is taken in whole seconds
    /\ \E answer \in {"text", "empty", "rate_limited", "error"} : \E jitter \in {0, 1} :
         LET met == [provider_call EXCEPT !.requests = @ + 1, !.answers = Append(@, answer)]
         IN provider_call' =
              IF answer = "text" THEN [met EXCEPT !.pc = "returned"]
              ELSE IF answer = "empty"
                   THEN [met EXCEPT !.pc = "sleep", !.last_exception = "no text",
                                    !.wait_time = EmptyResponseWait]
              ELSE IF answer = "rate_limited"
                   THEN [met EXCEPT !.pc = "sleep", !.last_exception = "rate limit",
                                    !.wait_time = BackoffBase(met.attempt) + jitter]
              ELSE [met EXCEPT !.pc = "raised", !.raised = "api call failed"]
    /\ UNCHANGED <<engineVars, builderVars, instructions, sanitize_log, subprocess_run>>

\* time.sleep(...) and continue: the next pass of the loop.
ProviderSleep ==
    /\ provider_call.pc = "sleep"
    /\ provider_call' = [provider_call EXCEPT !.pc = "request", !.attempt = @ + 1,
                                              !.waits = Append(@, provider_call.wait_time)]
    /\ UNCHANGED <<engineVars, builderVars, instructions, sanitize_log, subprocess_run>>

\* Line 77: the loop is over without a return.
ProviderGiveUp ==
    /\ provider_call.pc = "request"
    /\ ~LoopRuns(provider_call.attempt, provider_call.max_retries)
    /\ provider_call' = [provider_call EXCEPT !.pc = "raised",
                                              !.raised = "failed after retries"]
    /\ UNCHANGED <<engineVars, builderVars, instructions, sanitize_log, subprocess_run>>

ProviderNext ==
    \/ ProviderRequest
    \/ ProviderSleep
    \/ ProviderGiveUp

\* The sleeps end and the requests are answered.
FairProviderSpec == ProviderInit /\ [][ProviderNext]_vars /\ WF_vars(ProviderNext)

\* -------------------------------------------------- subprocesses of gates
\* One subprocess run of the install gate (EnvironmentManager.
\* install_dependencies) or of the tests gate (AutomatedExecutionStrategy.
\* execute): the child writes up to MaxChunks pieces of output to each of
\* stdout and stderr and exits with a return code or never exits; the time
\* runs up to Timeout ticks.
MaxChunks == 2
Timeout == 2

\* Whether the run is given a timeout: communicate(timeout=timeout) and
\* subprocess.run(..., timeout=timeout) in execute; subprocess.run without
\* one in install_dependencies (line 141).
HasTimeout(gate) == gate = "tests"

\* What the caller holds of a stream of the child after the timeout: on
\* win32 process.kill() and communicate() collect it (lines 95-102);
\* elsewhere the handler of TimeoutExpired returns "" for stdout and the
\* timeout message alone for stderr (lines 118-122).
OutputAfterTimeout(platform, written) == IF platform = "win32" THEN written ELSE 0

\* What of the returned stdout the failure feedback of the gate holds: the
\* install feedback is made of stderr alone (_build_and_verify line 315),
\* the tests feedback of STDOUT and STDERR (_run_unit_tests lines 88-91).
StdoutInFeedback(gate, stdout) == IF gate = "install" THEN 0 ELSE stdout

SubprocessInit ==
    /\ task_doc = <<>>
    /\ max_attempts = 1
    /\ env = SchedulerEnv
    /\ Workspace
    /\ IdleBuilder
    /\ instructions = <<>>
    /\ sanitize_log = <<>>
    /\ provider_call = NoCall
    /\ \E gate \in {"install", "tests"} : \E platform \in {"win32", "posix"} :
       \E child \in {"exits", "hangs"} :
         subprocess_run = [pc |-> "running", gate |-> gate, platform |-> platform,
                           child |-> child, written |-> 0, written_err |-> 0,
                           elapsed |-> 0, return_code |-> 0, stdout |-> 0, stderr |-> 0,
                           timed_out |-> FALSE, gate_result |-> "none",
                           feedback_output |-> 0, feedback_stderr |-> 0]

\* The child writes a piece of output to stdout or to stderr.
ChildWrites ==
    /\ subprocess_run.pc = "running"
    /\ \E stream \in {"stdout", "stderr"} :
         IF stream = "stdout"
         THEN /\ subprocess_run.written < MaxChunks
              /\ subprocess_run' = [subprocess_run EXCEPT !.written = @ + 1]
         ELSE /\ subprocess_run.written_err < MaxChunks
              /\ subprocess_run' = [subprocess_run EXCEPT !.written_err = @ + 1]
    /\ UNCHANGED <<engineVars, builderVars, instructions, sanitize_log, provider_call>>

\* The child exits: the run returns its output and return code; the gate
\* passes on 0 and fails with its feedback otherwise (install: lines 141-149
\* and _build_and_verify 314-317, tests: _run_unit_tests lines 81-93).
ChildExits ==
    /\ subprocess_run.pc = "running"
    /\ subprocess_run.child = "exits"
    /\ \E return_code \in {0, 1} :
         subprocess_run' = [subprocess_run EXCEPT
             !.pc = "done", !.return_code = return_code,
             !.stdout = subprocess_run.written, !.stderr = subprocess_run.written_err,
             !.gate_result = IF return_code = 0 THEN "passed" ELSE "failed",
             !.feedback_output =
                 IF return_code = 0 THEN 0
                 ELSE StdoutInFeedback(subprocess_run.gate, subprocess_run.written),
             !.feedback_stderr = IF return_code = 0 THEN 0 ELSE subprocess_run.written_err]
    /\ UNCHANGED <<engineVars, builderVars, instructions, sanitize_log, provider_call>>

\* A tick of the clock of a run that has a timeout.
TimePasses ==
    /\ subprocess_run.pc = "running"
    /\ HasTimeout(subprocess_run.gate)
    /\ subprocess_run.elapsed < Timeout
    /\ subprocess_run' = [subprocess_run EXCEPT !.elapsed = @ + 1]
    /\ UNCHANGED <<engineVars, builderVars, instructions, sanitize_log, provider_call>>

\* TimeoutExpired: the child is killed, execute returns what it holds of the
\* output with return code -1, and the tests gate fails with it.
TimeoutExpires ==
    /\ subprocess_run.pc = "running"
    /\ HasTimeout(subprocess_run.gate)
    /\ subprocess_run.elapsed = Timeout
    /\ LET stdout == OutputAfterTimeout(subprocess_run.platform, subprocess_run.written)
           stderr == OutputAfterTimeout(subprocess_run.platform, subprocess_run.written_err)
       IN subprocess_run' = [subprocess_run EXCEPT
              !.pc = "done", !.return_code = -1, !.stdout = stdout, !.stderr = stderr,
              !.timed_out = TRUE, !.gate_result = "failed",
              !.feedback_output = StdoutInFeedback(subprocess_run.gate, stdout),
              !.feedback_stderr = stderr]
    /\ UNCHANGED <<engineVars, builderVars, instructions, sanitize_log, provider_call>>

SubprocessNext ==
    \/ ChildWrites
    \/ ChildExits
    \/ TimePasses
    \/ TimeoutExpires

\* The clock runs and a child that exits does so.
FairSubprocessSpec ==
    SubprocessInit /\ [][SubprocessNext]_vars /\ WF_vars(SubprocessNext)

\* --------------------------------------------------------------- properties
\* The ids a step lists as its dependencies.
DependenciesOf(n) == Range(StepOf(task_doc, n).dependencies)

\* Every listed dependency id is the id of a step of the document.
NoDanglingDependency ==
    \A i \in DOMAIN task_doc : \A j \in DOMAIN task_doc[i].dependencies :
        \E k \in DOMAIN task_doc : task_doc[k].step_number = task_doc[i].dependencies[j]

\* Step n depends on itself along some chain of dependencies.
OnCycle(n) ==
    \E len \in 1..Len(task_doc) : \E path \in [1..len -> StepNumbers(task_doc)] :
        /\ path[1] = n
        /\ \A i \in 1..(len - 1) : path[i + 1] \in DependenciesOf(path[i])
        /\ n \in DependenciesOf(path[len])
HasCycle == \E n \in StepNumbers(task_doc) : OnCycle(n)

\* execute_step has just been called for step_number.
JustStarted == pc = "attempt" /\ attempt_number = 0

\* C1: in a graph without dangling dependency, the attempt loop of a step is
\* started only when every dependency of the step is in completed_steps, and
\* no step is started twice, also when a dependency id is listed twice.
StartedOnceAfterDependencies ==
    NoDanglingDependency =>
        /\ \A i \in DOMAIN started : DependenciesOf(started[i]) \subseteq completed_steps
        /\ \A i, j \in DOMAIN started : i # j => started[i] # started[j]

\* A step that lists one dependency twice, and one that lists two, have run.
DuplicateDependencyStepStarted ==
    /\ \E i \in DOMAIN started :
         LET deps == StepOf(task_doc, started[i]).dependencies
         IN Len(deps) = 2 /\ deps[1] = deps[2] /\ started[i] \in completed_steps
    /\ Len(started) = 3

\* execute_step never returns anything but 'success'.
EveryResultIsSuccess == pc = "result" => step_result = "success"
\* The phase has ended with every step run and completed, reporting success.
AllStepsRunAndCompleted ==
    /\ pc = "done"
    /\ Range(started) = StepNumbers(task_doc)
    /\ completed_steps = StepNumbers(task_doc)
    /\ phase_result = "success"

\* C2: in an acyclic graph without dangling dependency where every attempt
\* loop returns success, eventually every step has been run, completed_steps
\* holds every step id and the phase has reported success.
AllSuccessRunCompletes ==
    (NoDanglingDependency /\ ~HasCycle /\ []EveryResultIsSuccess)
        => <>AllStepsRunAndCompleted

\* A run of three steps, one of them with two dependencies, has completed.
ThreeStepRunCompleted ==
    /\ AllStepsRunAndCompleted
    /\ Len(task_doc) = 3
    /\ \E n \in StepNumbers(task_doc) : Cardinality(DependenciesOf(n)) = 2

\* C3: after the human answered abort or skip at the confirmation gate, the
\* scheduler is never back at its loop with a ready step to start: the run
\* ends.
HumanStopEndsRun ==
    step_result \in {HumanSkip, HumanAbort} =>
        \/ pc \in {"result", "done"}
        \/ pc = "schedule" /\ queue = <<>>

\* C4: when an attempt loop returned 'aborted' (cap exhausted or internal
\* error) the run ends at once: the aborted step is the last one started, it
\* is not completed, and none of its dependents is unlocked.
AbortedLoopEndsRun ==
    step_result = "aborted" =>
        /\ pc \in {"result", "done"}
        /\ started[Len(started)] = step_number
        /\ step_number \notin completed_steps
        /\ \A d \in StepNumbers(task_doc) :
             step_number \in DependenciesOf(d) =>
                 /\ in_degree[d] > 0
                 /\ d \notin Range(queue) \cup Range(started)

\* The run ended on an exhausted cap with a ready step still in the queue.
CapExhaustedWithReadySteps ==
    /\ pc = "done"
    /\ step_result = "aborted"
    /\ Len(failure_log) = max_attempts
    /\ queue # <<>>
    /\ \E d \in StepNumbers(task_doc) : step_number \in DependenciesOf(d)

\* C5: with a dependency id that is no step of the document the phase fails
\* before any attempt loop is entered: no step is started, no generator call
\* is made, completed_steps stays empty and latest_successful_code is as the
\* workspace was created.
DanglingDependencyFailsBeforeAnyStep ==
    ~NoDanglingDependency =>
        /\ pc \in {"graph", "done"}
        /\ started = <<>>
        /\ generator_calls = 0
        /\ completed_steps = {}
        /\ latest_successful_code = EmptyDir
        /\ pc = "done" => phase_result = "failure"

\* The phase has failed on a dangling id listed second, next to a step that
\* has no dependency.
DanglingDependencyRejected ==
    /\ pc = "done"
    /\ phase_result = "failure"
    /\ \E i \in DOMAIN task_doc :
         /\ Len(task_doc[i].dependencies) = 2
         /\ task_doc[i].dependencies[1] \in StepNumbers(task_doc)
         /\ task_doc[i].dependencies[2] \notin StepNumbers(task_doc)
    /\ \E i \in DOMAIN task_doc : task_doc[i].dependencies = <<>>

\* C6 as stated: with a dependency cycle no step on the cycle is started,
\* completed_steps never holds every step, and the phase ends reporting
\* failure with fewer completed steps than steps.
CycleReportsFailure ==
    HasCycle =>
        /\ \A i \in DOMAIN started : ~OnCycle(started[i])
        /\ completed_steps # StepNumbers(task_doc)
        /\ pc = "done" =>
             /\ phase_result = "failure"
             /\ Cardinality(completed_steps) < Cardinality(StepNumbers(task_doc))

\* C6: with a dependency cycle no step on the cycle is started and
\* completed_steps never holds every step; the phase ends with fewer
\* completed steps than steps and reports failure, except when it ends on an
\* 'aborted' step after some step completed, where it reports success.
CycleNeverCompletes ==
    HasCycle =>
        /\ \A i \in DOMAIN started : ~OnCycle(started[i])
        /\ completed_steps # StepNumbers(task_doc)
        /\ pc = "done" =>
             /\ Cardinality(completed_steps) < Cardinality(StepNumbers(task_doc))
             /\ phase_result = IF step_result = "aborted" /\ completed_steps # {}
                               THEN "success" ELSE "failure"

\* The queue drained with a step completed and a cycle left over.
CycleLeftOver ==
    /\ HasCycle
    /\ NoDanglingDependency
    /\ pc = "done"
    /\ completed_steps # {}
    /\ step_result = "success"
    /\ phase_result = "failure"

\* C7: a step is started only when its id is smaller than the id of every
\* other step that is ready at that moment.
SmallestReadyIdFirst ==
    JustStarted => \A i \in DOMAIN queue : step_number < queue[i]

\* The validation messages a feedback section holds, in its order.
ShapeMessagesIn(section) ==
    LET at == {i \in DOMAIN section : section[i] = ShapeFeedbackPrefix}
    IN [k \in 1..Cardinality(at) |->
           section[(CHOOSE i \in at : Cardinality({j \in at : j < i}) = k - 1) + 1]]

\* Every attempt the running step has made failed shape validation.
OnlyShapeFailures ==
    /\ pc \in {"attempt", "result"}
    /\ attempt_number > 0
    /\ Len(failure_log) = attempt_number
    /\ \A i \in DOMAIN failure_log : failure_log[i][1] = ShapeFeedbackPrefix

\* C8: while every attempt fails shape validation, attempt k is generator
\* call k, its prompt holds exactly the k-1 earlier validation messages in
\* order, no gate runs, no tree is built or accepted, and the loop returns
\* 'aborted' after exactly max_attempts calls.
ShapeFailuresExhaustTheCap ==
    OnlyShapeFailures =>
        /\ generator_calls = attempt_number
        /\ attempt_number <= max_attempts
        /\ ShapeMessagesIn(feedback_section)
             = [i \in 1..(attempt_number - 1) |-> failure_log[i][2]]
        /\ Len(feedback_section) = IF attempt_number = 1 THEN 0 ELSE 3 * attempt_number - 3
        /\ gates_run = {}
        /\ \A k \in DOMAIN attempt_dirs : attempt_dirs[k] = NoDir
        /\ successful_steps[step_number] = NoDir
        /\ \A i \in DOMAIN accepted : accepted[i].step # step_number
        /\ pc = "result" => step_result = "aborted" /\ generator_calls = max_attempts

\* A loop of three attempts ended on three validation failures, not all
\* with the same message.
ThreeShapeFailures ==
    /\ OnlyShapeFailures
    /\ pc = "result"
    /\ attempt_number = 3
    /\ failure_log[1] # failure_log[2]
    /\ failure_log[2] # failure_log[3]

\* The tree that results from the accepted edits of the steps 1, 2, 3 applied
\* in this order.
AcceptedOf(n) == accepted[CHOOSE i \in DOMAIN accepted : accepted[i].step = n]
FoldedTree ==
    ApplyInstructions(
        ApplyInstructions(BuildProjectStructure(NoDir, AcceptedOf(1).files).dir,
                          AcceptedOf(2).modifications).dir,
        AcceptedOf(3).modifications).dir

\* C9: for the graph 1: [], 2: [1], 3: [1] with every step accepted, the
\* steps run in the order 1, 2, 3, completed_steps ends as {1, 2, 3} and
\* latest_successful_code is step 3's edits on step 2's edits on step 1's
\* tree.
DiamondRunsInIdOrder ==
    ( /\ StepNumbers(task_doc) = {1, 2, 3}
      /\ StepOf(task_doc, 1).dependencies = <<>>
      /\ StepOf(task_doc, 2).dependencies = <<1>>
      /\ StepOf(task_doc, 3).dependencies = <<1>>
      /\ pc = "done"
      /\ Len(accepted) = 3 )
    => /\ started = <<1, 2, 3>>
       /\ completed_steps = {1, 2, 3}
       /\ CodeFiles(latest_successful_code) = CodeFiles(FoldedTree)

\* The files of a directory other than the step summary.
WithoutSummary(dir) ==
    [exists |-> dir.exists,
     files |-> [p \in AllPaths \ {STEP_SUMMARY_FILENAME} |-> dir.files[p]]]

\* C10: when a step is started, each of its dependencies has its snapshot,
\* equal to the tree it was accepted with, and latest_successful_code is the
\* complete tree of the attempt accepted last.
StartsOnAcceptedTrees ==
    JustStarted =>
        /\ \A d \in DependenciesOf(step_number) :
             \E i \in DOMAIN accepted :
                 /\ accepted[i].step = d
                 /\ WithoutSummary(successful_steps[d]) = WithoutSummary(accepted[i].tree)
        /\ accepted # <<>> =>
             latest_successful_code = CopyTree(accepted[Len(accepted)].tree)

\* A step with a dependency starts after two steps were accepted.
DependentStartedAfterTwoAccepted ==
    /\ JustStarted
    /\ DependenciesOf(step_number) # {}
    /\ Len(accepted) = 2

\* The paths a file list names.
ListedPaths(files) == {files[i].path : i \in DOMAIN files}

\* C11: building a file list twice into the same target directory leaves the
\* tree (and the outcome) of building it once, and a built tree holds no file
\* that is not in the list, whatever the target held before.
BuildIsIdempotent ==
    /\ Len(build_log) = MaxBuilds =>
         /\ build_log[2].ok = build_log[1].ok
         /\ build_log[2].dir = build_log[1].dir
    /\ \A i \in DOMAIN build_log : \A p \in AllPaths :
         FileExists(build_log[i].dir, p) => p \in ListedPaths(build_files)

\* A target that held a file the list does not name was built twice from a
\* list that writes a file.
RebuiltOverOldFiles ==
    /\ Len(build_log) = MaxBuilds
    /\ build_log[1].ok
    /\ \E p \in AllPaths : FileExists(build_log[1].before, p) /\ p \notin ListedPaths(build_files)
    /\ \E p \in AllPaths : FileExists(build_log[1].dir, p)

\* A diff whose range lies inside a file of n lines.
InRange(diff, n) ==
    1 <= diff.start_line /\ diff.start_line <= diff.end_line /\ diff.end_line <= n
\* No line is in the range of two diffs of the list.
NonOverlapping(diffs) ==
    \A i, j \in DOMAIN diffs :
        i # j => diffs[i].end_line < diffs[j].start_line
                 \/ diffs[j].end_line < diffs[i].start_line

\* The lines i, i+1, ... of the original file with every range replaced, at
\* the place of its first line, by the lines of its replacement.
RECURSIVE ReplacedFrom(_, _, _)
ReplacedFrom(lines, diffs, i) ==
    IF i > Len(lines) THEN <<>>
    ELSE (IF \E k \in DOMAIN diffs : diffs[k].start_line = i
          THEN SplitLines(diffs[CHOOSE k \in DOMAIN diffs : diffs[k].start_line = i].new_content)
          ELSE IF \E k \in DOMAIN diffs : diffs[k].start_line < i /\ i <= diffs[k].end_line
          THEN <<>>
          ELSE <<lines[i]>>)
         \o ReplacedFrom(lines, diffs, i + 1)

\* The lines of the file the instruction found.
LinesBefore == SplitLines(edit_log[1].before.files[EditedPath])

\* The instruction found the file and all its ranges are inside it and apart.
EditedInRangeApart ==
    /\ edit_log # <<>>
    /\ FileExists(edit_log[1].before, EditedPath)
    /\ \A k \in DOMAIN line_diffs : InRange(line_diffs[k], Len(LinesBefore))
    /\ NonOverlapping(line_diffs)

\* C12: for in-range, pairwise non-overlapping diffs on an existing file the
\* result is the original with every range replaced by its replacement
\* lines, and it is the result for every order of the diffs in the list.
EditOrderIsIrrelevant ==
    EditedInRangeApart =>
        /\ edit_log[1].after.files[EditedPath]
             = JoinLines(ReplacedFrom(LinesBefore, line_diffs, 1))
        /\ \A o \in Orders(Len(line_diffs)) :
             ApplyLineDiffs(edit_log[1].before, EditedPath,
                            [i \in DOMAIN line_diffs |-> line_diffs[o[i]]])
               = edit_log[1].after

\* Three diffs listed in ascending order, the first changing the number of
\* lines, were applied.
AscendingDiffsApplied ==
    /\ EditedInRangeApart
    /\ Len(line_diffs) = MaxDiffs
    /\ line_diffs[1].start_line < line_diffs[2].start_line
    /\ line_diffs[2].start_line < line_diffs[3].start_line
    /\ line_diffs[1].new_content # <<>>
    /\ edit_log[1].after # edit_log[1].before

\* A diff whose range reaches past the end of a file of n lines.
OutOfRange(diff, n) == diff.start_line > n \/ diff.end_line > n

\* C13: when every diff of the instruction is out of range for the existing
\* file, the content of the file after the instruction is its content before.
SkippedDiffsKeepTheFile ==
    ( /\ edit_log # <<>>
      /\ FileExists(edit_log[1].before, EditedPath)
      /\ line_diffs # <<>>
      /\ \A k \in DOMAIN line_diffs : OutOfRange(line_diffs[k], Len(LinesBefore)) )
    => edit_log[1].after.files[EditedPath] = edit_log[1].before.files[EditedPath]

\* ------------------------------------------------------------------ gates
\* The place of a gate in the order of _build_and_verify.
GateRank(gate) ==
    CASE gate = "inspect" -> 1
      [] gate = "install" -> 2
      [] gate = "tests" -> 3
      [] gate = "manual" -> 4
      [] OTHER -> 5

\* What the gate met lets the attempt through.
GateMetSuccess(entry) ==
    IF entry.gate = "inspect" THEN entry.outcome \in {"approved", "approved_with_notes"}
    ELSE IF entry.gate = "install" THEN entry.outcome = "installed"
    ELSE IF entry.gate = "tests" THEN entry.outcome = 0
    ELSE entry.outcome = "y"

GatesOf(log) == {log[i].gate : i \in DOMAIN log}

\* C14: the gates of an attempt run in the order review, install, tests,
\* human confirmation, starting with the review, and no gate runs after a
\* gate of the attempt has failed.
GatesRunInOrderUntilFirstFailure ==
    /\ gate_log # <<>> => gate_log[1].gate = "inspect"
    /\ \A i, j \in DOMAIN gate_log :
         i < j => /\ GateRank(gate_log[i].gate) < GateRank(gate_log[j].gate)
                  /\ GateMetSuccess(gate_log[i])
    /\ pc \in {"install", "tests", "manual", "mark"} =>
         \A i \in DOMAIN gate_log :
             GateMetSuccess(gate_log[i]) /\ GateRank(gate_log[i].gate) < GateRank(pc)

\* The install failed after an approving review, and the attempt is over.
InstallFailedAfterApproval ==
    /\ Len(gate_log) = 2
    /\ gate_log[1].gate = "inspect"
    /\ gate_log[2] = [gate |-> "install", outcome |-> "failed"]
    /\ pc = "attempt"
    /\ failure_log # <<>>

\* The review approved, the human reported success and no gate failed.
AttemptPassedAllGates ==
    /\ \E i \in DOMAIN gate_log : gate_log[i].gate = "inspect"
    /\ \E i \in DOMAIN gate_log : gate_log[i].gate = "manual"
    /\ \A i \in DOMAIN gate_log : GateMetSuccess(gate_log[i])

\* C15: an attempt is accepted (snapshot recorded, latest_successful_code
\* replaced, step added to completed_steps) only if in that attempt the
\* review approved, the install succeeded when a non-empty manifest required
\* it, the declared tests passed and the human reported success.
AcceptedOnlyAfterAllGates ==
    /\ ( \/ pc = "mark"
         \/ step_result = "success"
         \/ completed_steps # {}
         \/ accepted # <<>>
         \/ latest_successful_code # EmptyDir
         \/ \E n \in DOMAIN successful_steps : successful_steps[n].exists )
       => AttemptPassedAllGates
    /\ pc = "mark" =>
         /\ ( FileExists(AttemptDir, DependencyFileName)
              /\ AttemptDir.files[DependencyFileName] # <<>> )
            => "install" \in GatesOf(gate_log)
         /\ llm_response.tests_to_run # <<>> => "tests" \in GatesOf(gate_log)

\* An attempt that went through all four gates was accepted.
AcceptedThroughFourGates ==
    /\ step_result = "success"
    /\ Len(gate_log) = 4
    /\ completed_steps # {}

\* C16: the review, install and test gates never end the attempt loop: each
\* passes on to the next gate or goes back to the loop with feedback.
OnlyHumanGateStopsTheLoop ==
    [][(pc \in {"inspect", "install", "tests"}) => (pc' # "result")]_vars

\* The gate just entered in gate_log met an exception of its tooling.
GateJustRaised ==
    /\ Len(gate_log') = Len(gate_log) + 1
    /\ gate_log'[Len(gate_log')].gate \in {"inspect", "install"}
    /\ gate_log'[Len(gate_log')].outcome = "raises"

\* C17: an exception raised inside the review or the install is a failure
\* of the attempt: a feedback message is added and the loop goes on.
GateExceptionIsRetried ==
    [][GateJustRaised =>
          /\ pc' = "attempt"
          /\ Len(cumulative_feedback') = Len(cumulative_feedback) + 1]_vars

\* ------------------------------------------------------------------ store
\* latest_successful_code as the last acceptance leaves it when whole.
WholeLatest ==
    IF accepted = <<>> THEN EmptyDir ELSE CopyTree(accepted[Len(accepted)].tree)

\* C18: whenever a step or an attempt can read latest_successful_code it is
\* whole: the empty initial tree or the complete tree of the attempt
\* accepted last; it is missing or partial only after a failed copy, with
\* the step aborted and the run at its end.
LatestTreeIsWholeWhenRead ==
    latest_successful_code # WholeLatest =>
        /\ pc \in {"result", "done"}
        /\ step_result = "aborted"

\* The copy into latest_successful_code failed after an earlier acceptance,
\* with a step still waiting in the queue, and the run ended.
FailedCopyEndedTheRun ==
    /\ latest_successful_code # WholeLatest
    /\ accepted # <<>>
    /\ queue # <<>>
    /\ pc = "done"

\* C19: a snapshot exists exactly for the completed steps (and the step whose
\* success the scheduler is about to record), and it is the accepted tree.
OneSnapshotPerCompletedStep ==
    \A n \in DOMAIN successful_steps :
        /\ successful_steps[n].exists <=>
             \/ n \in completed_steps
             \/ n = step_number /\ pc = "result" /\ step_result = "success"
        /\ n \in completed_steps =>
             WithoutSummary(successful_steps[n]) = WithoutSummary(CopyTree(AcceptedOf(n).tree))

\* C20: completed_steps is empty at the start and only grows, by the step
\* whose attempt loop has just returned 'success'.
CompletedSetOnlyGrows ==
    /\ completed_steps = {}
    /\ [][/\ completed_steps \subseteq completed_steps'
          /\ completed_steps' # completed_steps =>
               /\ pc = "result"
               /\ step_result = "success"
               /\ completed_steps' = completed_steps \cup {step_number}]_vars

\* Two steps have been added to completed_steps.
SecondStepCompleted ==
    /\ Cardinality(completed_steps) = 2
    /\ Len(started) = 2

\* ------------------------------------------------------- cumulative trees
\* The tree that holds what every accepted step of the log wrote, in order:
\* the files of a fresh generation written over what is there, the
\* instructions of a modification applied to what is there.
RECURSIVE CumulativeFrom(_, _)
CumulativeFrom(dir, log) ==
    IF log = <<>> THEN dir
    ELSE CumulativeFrom(IF Head(log).kind = "initial"
                        THEN WriteFiles(dir, Head(log).files).dir
                        ELSE ApplyInstructions(dir, Head(log).modifications).dir,
                        Tail(log))

\* C21: after any sequence of accepted steps latest_successful_code holds
\* every file an accepted step wrote that no later accepted step replaced or
\* deleted, also when a later accepted step is a fresh generation.
LatestIsCumulative ==
    (accepted # <<>> /\ latest_successful_code = WholeLatest)
    => CodeFiles(latest_successful_code) = CodeFiles(CumulativeFrom(EmptyDir, accepted))

\* C22: once the tree of an attempt is built, the attempt directory holds
\* the raw output of the generator saved for that attempt.
BuiltAttemptHoldsRawOutput ==
    pc \in {"inspect", "install", "tests", "manual", "mark"}
    => FileExists(AttemptDir, STEP_CODE_OUTPUT_FILENAME)

\* ------------------------------------------------------------ attempt loop
\* The messages m1, m2, ... joined with the delimiter between them.
RECURSIVE Concatenated(_)
Concatenated(log) ==
    IF log = <<>> THEN <<>>
    ELSE IF Len(log) = 1 THEN log[1]
    ELSE Concatenated(SubSeq(log, 1, Len(log) - 1)) \o <<Delimiter>> \o log[Len(log)]

\* The feedback section that shows the messages of the log.
SectionShowing(log) ==
    IF log = <<>> THEN <<>> ELSE <<FeedbackHeader>> \o Concatenated(log)

\* C23: whatever the failures were, the feedback log is the sequence of the
\* messages the failed attempts ended with, one per attempt and unmodified;
\* at the start of attempt k it holds k-1 messages, and the feedback section
\* of the prompt of attempt k is these k-1 messages joined with the
\* delimiter, empty for attempt 1.
FeedbackLogIsTheFailureHistory ==
    /\ cumulative_feedback = failure_log
    /\ pc = "attempt" => Len(cumulative_feedback) = attempt_number
    /\ pc \in {"build", "inspect", "install", "tests", "manual", "mark"} =>
         Len(cumulative_feedback) = attempt_number - 1
    /\ attempt_number >= 1 =>
         /\ Len(cumulative_feedback) >= attempt_number - 1
         /\ feedback_section
              = SectionShowing(SubSeq(failure_log, 1, attempt_number - 1))
    /\ attempt_number = 1 => feedback_section = <<>>

\* The third attempt was prompted after a validation failure and a failure
\* of another kind.
ThirdAttemptAfterMixedFailures ==
    /\ attempt_number = 3
    /\ pc = "build"
    /\ failure_log[1][1] = ShapeFeedbackPrefix
    /\ failure_log[2][1] # ShapeFeedbackPrefix

\* What an attempt loop can return.
LoopOutcomes == {"success", "aborted", HumanSkip, HumanAbort}

\* C24: every attempt loop ends, after at most max_attempts generator calls,
\* with success, abort or skip; when no attempt was accepted and the human
\* neither skipped nor aborted, it ends with abort.
AttemptLoopTerminates ==
    /\ <>(step_result \in LoopOutcomes)
    /\ [](generator_calls <= max_attempts)
    /\ [](step_result # "none" => step_result \in LoopOutcomes)
    /\ []((step_result \notin {"none", "success", HumanSkip, HumanAbort})
            => step_result = "aborted")
    /\ [](step_result = "success" => accepted # <<>>)

\* The cap of three attempts was used up by failures at the gates.
CapUsedUpAtTheGates ==
    /\ step_result = "aborted"
    /\ max_attempts = MaxLoopAttempts
    /\ generator_calls = max_attempts
    /\ Len(failure_log) = max_attempts
    /\ gates_run # {}

\* The loop of the step returned the human's skip or abort.
HumanStopped == step_result \in {HumanSkip, HumanAbort}

\* The human has just answered S or A at the confirmation gate.
HumanJustStopped ==
    /\ Len(gate_log') = Len(gate_log) + 1
    /\ IF gate_log'[Len(gate_log')].gate = "manual"
       THEN gate_log'[Len(gate_log')].outcome \in {"s", "a"}
       ELSE FALSE

\* C25: the human's skip or abort at attempt k ends the attempt loop at once
\* with that outcome: the loop returns it, no further attempt is generated,
\* the feedback log is left as it was and the attempt is not accepted.
HumanStopEndsTheLoop ==
    /\ [](HumanStopped =>
            /\ pc \in {"result", "schedule", "done"}
            /\ generator_calls = attempt_number
            /\ Len(cumulative_feedback) = attempt_number - 1
            /\ accepted = <<>>
            /\ latest_successful_code = EmptyDir
            /\ ~successful_steps[step_number].exists
            /\ completed_steps = {})
    /\ [][HumanJustStopped =>
            /\ pc' = "result"
            /\ step_result' = (IF gate_log'[Len(gate_log')].outcome = "s"
                               THEN HumanSkip ELSE HumanAbort)
            /\ cumulative_feedback' = cumulative_feedback]_vars
    /\ [][HumanStopped => generator_calls' = generator_calls]_vars

\* The human skipped at the first of three attempts and the run is over.
SkippedAtFirstOfThreeAttempts ==
    /\ step_result = HumanSkip
    /\ attempt_number = 1
    /\ max_attempts = MaxLoopAttempts
    /\ pc = "done"

\* C26: a generator output whose usage guide is no object is a failure of
\* its attempt: it adds a feedback message and the loop goes on.
MalformedOutputIsRecoverable ==
    [][(pc = "manual" /\ llm_response.usage_guide # "object")
         => /\ pc' = "attempt"
            /\ Len(cumulative_feedback') = Len(cumulative_feedback) + 1]_vars

\* The paths the instructions of a list name.
InstructedPaths(list) == {list[i].path : i \in DOMAIN list}

\* C27: the tree built for an attempt of a modification step is a full copy
\* of latest_successful_code changed only where an instruction of this
\* attempt names the path: nothing of an earlier attempt's tree and nothing
\* the target held before is in it.
AttemptBuiltFromFreshCopy ==
    (pc = "inspect" /\ step_kind = "modification") =>
        /\ AttemptDir.exists
        /\ \A p \in AllPaths :
             AttemptDir.files[p] # latest_successful_code.files[p]
               => p \in InstructedPaths(llm_response.modifications)

\* The second attempt of a modification step was built without the file the
\* rejected first attempt had added.
SecondAttemptWithoutFirstsFile ==
    /\ pc = "inspect"
    /\ step_kind = "modification"
    /\ attempt_number = 2
    /\ FileExists(attempt_dirs[1], "b.py")
    /\ ~FileExists(AttemptDir, "b.py")
    /\ FileExists(latest_successful_code, "a.py")

\* C28: a step is run as a fresh generation exactly when it lists no
\* dependency, and as a modification exactly when it lists at least one.
BuildModeFollowsDependencies ==
    step_kind # "none" =>
        (step_kind = "initial" <=> StepOf(task_doc, step_number).dependencies = <<>>)

\* The lines of the file apply_modifications found in its base.
LinesOfBase == SplitLines(modify_log[1].base.files[EditedPath])

\* C29: line-range edits of one file given as separate instructions, in
\* range and pairwise non-overlapping, replace the lines their numbers
\* denote in the original file, as when applied in descending order.
SeparateEditsApplyDescending ==
    ( /\ modify_log # <<>>
      /\ FileExists(modify_log[1].base, EditedPath)
      /\ \A k \in DOMAIN line_diffs : InRange(line_diffs[k], Len(LinesOfBase))
      /\ NonOverlapping(line_diffs) )
    => /\ modify_log[1].ok
       /\ modify_log[1].dir.files[EditedPath]
            = JoinLines(ReplacedFrom(LinesOfBase, line_diffs, 1))

\* The instruction found the file.
EditedExisting == edit_log # <<>> /\ FileExists(edit_log[1].before, EditedPath)

\* The lines of the file the instruction left.
LinesAfter == SplitLines(edit_log[1].after.files[EditedPath])

\* C30 as stated: when every diff of the instruction has start_line >=
\* end_line, the lines of the file are left as they were.
EmptyOrInvertedRangesAreSkipped ==
    ( /\ EditedExisting
      /\ \A k \in DOMAIN line_diffs : line_diffs[k].start_line >= line_diffs[k].end_line )
    => LinesAfter = LinesBefore

\* The diffs of the list whose range lies inside a file of n lines.
DiffsInRange(diffs, n) == SelectSeq(diffs, LAMBDA d : InRange(d, n))

\* With every diff of the instruction either inverted or in range, the
\* in-range ones apart, the file is the original with the in-range ranges
\* replaced.
InvertedSkippedOthersApplied ==
    EditedExisting =>
        LET before == LinesBefore
            valid == DiffsInRange(line_diffs, Len(before))
        IN ( /\ \A k \in DOMAIN line_diffs :
                  \/ line_diffs[k].start_line > line_diffs[k].end_line
                  \/ InRange(line_diffs[k], Len(before))
             /\ NonOverlapping(valid) )
           => LinesAfter = SplitLines(JoinLines(ReplacedFrom(before, valid, 1)))

\* C30: a diff with start_line > end_line is skipped, the other diffs of
\* the instruction are applied and the build does not fail; a diff with
\* start_line = end_line replaces that line.
InvertedRangesAreSkipped ==
    /\ InvertedSkippedOthersApplied
    /\ (modify_log # <<>> => modify_log[1].ok)

\* An instruction with an inverted diff that brings new lines and a diff
\* for a single line changed the file by the second only.
InvertedSkippedSingleLineApplied ==
    /\ EditedExisting
    /\ Len(line_diffs) = 2
    /\ line_diffs[1].start_line > line_diffs[1].end_line
    /\ line_diffs[1].end_line >= 1
    /\ line_diffs[1].new_content # <<>>
    /\ line_diffs[2].start_line = line_diffs[2].end_line
    /\ InRange(line_diffs[2], Len(LinesBefore))
    /\ LinesAfter # LinesBefore

\* The instruction list without its k-th element.
WithoutInstruction(list, k) == SubSeq(list, 1, k - 1) \o SubSeq(list, k + 1, Len(list))

\* The working copy as the k-th instruction of the list finds it.
WorkingCopyAt(base, list, k) == ApplyInstructions(FreshCopy(base, NoDir), SubSeq(list, 1, k - 1))

\* The k-th instruction is reached and is a delete_file of a path the
\* working copy does not hold, or carries a tag the builder does not know.
IsIgnoredAt(base, list, k) ==
    /\ WorkingCopyAt(base, list, k).ok
    /\ list[k].path \notin {NoPath, NotAnObject}
    /\ \/ list[k].type = "delete_file" /\ ~FileExists(WorkingCopyAt(base, list, k).dir, list[k].path)
       \/ list[k].type \notin {"replace_file", "new_file", "line_diff", "delete_file"}

\* C31: a delete_file of a missing path and an instruction with an unknown
\* tag change nothing: the build leaves the tree and reports what it would
\* without that instruction, and reports success when every element of the
\* list is an object.
IgnoredInstructionsAreNoOps ==
    modify_log # <<>> =>
        /\ \A k \in DOMAIN instructions :
             IsIgnoredAt(modify_log[1].base, instructions, k) =>
                LET without == ApplyModifications(modify_log[1].base, NoDir,
                                                  WithoutInstruction(instructions, k))
                IN /\ modify_log[1].dir = without.dir
                   /\ modify_log[1].ok = without.ok
        /\ (\A k \in DOMAIN instructions : instructions[k].path # NotAnObject)
             => modify_log[1].ok

\* A build whose list has a delete_file of a missing path and an unknown tag
\* before an instruction that wrote a file.
IgnoredThenWritten ==
    /\ modify_log # <<>>
    /\ Len(instructions) = 3
    /\ instructions[1].type = "delete_file"
    /\ IsIgnoredAt(modify_log[1].base, instructions, 1)
    /\ instructions[2].type = "rename_file"
    /\ instructions[3].type = "new_file"
    /\ instructions[3].path = "b.py"
    /\ modify_log[1].ok
    /\ FileExists(modify_log[1].dir, "b.py")
    /\ ~FileExists(modify_log[1].base, "b.py")

\* The step accepted last has not been handed back to the scheduler yet.
AwaitingResult(i) ==
    i = Len(accepted) /\ pc = "result" /\ step_number = accepted[i].step

\* C32: a step accepted without a saved summary (the call raised, answered
\* with an unusable value, or the summary could not be saved) returns
\* 'success', its snapshot holds the files of the accepted tree, the latest
\* tree is the accepted tree until the next acceptance, and once the result
\* is handled the step is completed and its dependents are unlocked.
SummaryIsBestEffort ==
    \A i \in DOMAIN accepted :
        LET a == accepted[i]
        IN a.summary # "saved" =>
             /\ AwaitingResult(i) => step_result = "success"
             /\ WithoutSummary(successful_steps[a.step]) = WithoutSummary(CopyTree(a.tree))
             /\ a.summary # "cut_short" => successful_steps[a.step] = CopyTree(a.tree)
             /\ i = Len(accepted) => latest_successful_code = CopyTree(a.tree)
             /\ ~AwaitingResult(i) =>
                  /\ a.step \in completed_steps
                  /\ \A d \in StepNumbers(task_doc) :
                       (a.step \in DependenciesOf(d) /\ DependenciesOf(d) \subseteq completed_steps)
                       => d \in Range(queue) \cup Range(started)

\* The first step was accepted without a summary and the step that depends
\* on it was started.
DependentStartedWithoutSummary ==
    /\ Len(accepted) >= 1
    /\ accepted[1].summary \in {"raised", "unusable", "unsaved"}
    /\ accepted[1].step = 1
    /\ DependenciesOf(2) = {1}
    /\ 2 \in Range(started)
    /\ successful_steps[1] = CopyTree(accepted[1].tree)

\* The review gate has just approved with notes to add.
JustApprovedWithNotes ==
    /\ pc = "inspect"
    /\ Len(gate_log') = Len(gate_log) + 1
    /\ gate_log'[Len(gate_log')].gate = "inspect"
    /\ gate_log'[Len(gate_log')].outcome = "approved_with_notes"

\* C33: architecture_notes.md only grows: every step of the run leaves its
\* content as a prefix of the new content, a review that approves with notes
\* appends one dated note after it, and every other step leaves it as it is.
NotesAreAppendOnly ==
    [][ /\ Len(architecture_notes') >= Len(architecture_notes)
        /\ SubSeq(architecture_notes', 1, Len(architecture_notes)) = architecture_notes
        /\ IF JustApprovedWithNotes
           THEN /\ Len(architecture_notes') = Len(architecture_notes) + 4
                /\ architecture_notes'[Len(architecture_notes') - 3] = Delimiter
           ELSE architecture_notes' = architecture_notes ]_vars

\* The reviews of the first and of the second step each added a note.
NotesOfTwoSteps ==
    /\ Len(architecture_notes) = 8
    /\ step_number = 2
    /\ accepted # <<>>
    /\ \E i \in DOMAIN gate_log :
         gate_log[i].gate = "inspect" /\ gate_log[i].outcome = "approved_with_notes"

\* The name a manifest line gives: the line without surrounding white space,
\* in lower case, up to its version specifier.
PackageName(line) ==
    LET name == Lower(Strip(line))
    IN IF name # <<>> /\ name[Len(name)] = VersionSpecifier
       THEN RStrip(SubSeq(name, 1, Len(name) - 1)) ELSE name

\* The lines of a manifest that are not blank.
Entries(text) == SelectSeq(SplitLines(text), LAMBDA line : Strip(line) # <<>>)

\* C34: the sanitized manifest holds, unchanged and in order, exactly the
\* entries of the original that do not name a standard module, also those
\* whose name begins with the name of one.
SanitizeRemovesOnlyStandardModules ==
    sanitize_log # <<>> =>
        Entries(sanitize_log[1].after.files[DependencyFileName])
          = SelectSeq(Entries(sanitize_log[1].before.files[DependencyFileName]),
                      LAMBDA line : PackageName(line) \notin STANDARD_LIBS)

\* The call has ended: it returned a text or raised.
ProviderCallEnded == provider_call.pc \in {"returned", "raised"}

\* What holds of a provider call at every moment: no more than max_retries
\* requests; a retry only after a rate limit or a response without text, the
\* wait after the k-th rate limit at least 2^(k-1) * 15 s; a raise after
\* another error at once, the raise after retries only after max_retries
\* requests.
ProviderCallWithinBounds ==
    /\ provider_call.requests <= provider_call.max_retries
    /\ Len(provider_call.answers) = provider_call.requests
    /\ \A k \in DOMAIN provider_call.answers :
         /\ k < Len(provider_call.answers)
              => provider_call.answers[k] \in {"rate_limited", "empty"}
         /\ (provider_call.answers[k] = "rate_limited" /\ k \in DOMAIN provider_call.waits)
              => provider_call.waits[k] >= BackoffBase(k - 1)
    /\ provider_call.raised = "api call failed"
         => provider_call.answers[Len(provider_call.answers)] = "error"
    /\ provider_call.raised = "failed after retries"
         => /\ provider_call.requests = provider_call.max_retries
            /\ \A k \in DOMAIN provider_call.answers :
                 provider_call.answers[k] \in {"rate_limited", "empty"}
    /\ provider_call.pc = "returned"
         => provider_call.answers[Len(provider_call.answers)] = "text"

\* C35: a generation call makes at most max_retries requests, retries only
\* after a rate limit (with a growing wait) or a response without text,
\* raises at once on any other error and after max_retries unanswered
\* requests, and always ends.
ProviderCallIsBounded ==
    /\ []ProviderCallWithinBounds
    /\ <>ProviderCallEnded

\* The call was rate limited max_retries = 3 times and raised.
RateLimitedToTheEnd ==
    /\ provider_call.pc = "raised"
    /\ provider_call.max_retries = 3
    /\ provider_call.answers = <<"rate_limited", "rate_limited", "rate_limited">>
    /\ Len(provider_call.waits) = 3
    /\ provider_call.raised = "failed after retries"

\* C36: every subprocess run of the install and tests gates ends, a child
\* that never exits makes its gate fail, and the feedback of a run that was
\* timed out holds the output the child had written.
SubprocessRunsAreBounded ==
    /\ [](subprocess_run.timed_out
            => /\ subprocess_run.feedback_output = subprocess_run.written
               /\ subprocess_run.feedback_stderr = subprocess_run.written_err)
    /\ <>(subprocess_run.pc = "done")
    /\ [](subprocess_run.child = "hangs" /\ subprocess_run.pc = "done"
            => subprocess_run.gate_result = "failed")

\* C37: when the scheduler ends the run on a result 'aborted' or 'skipped',
\* the phase returns success, and the finalization runs, exactly when a step
\* had been completed by then; the completed steps stay as they are.
EarlyEndReportsPartialCompletion ==
    [][(pc = "result" /\ IsTerminal(step_result))
         => /\ pc' = "done"
            /\ completed_steps' = completed_steps
            /\ phase_result' \in {"success", "failure"}
            /\ FinalizationRuns(phase_result') <=> completed_steps # {}]_vars

\* The run was ended on an aborted step after another step was completed,
\* with steps left, and the phase returned success.
EndedEarlyAfterOneCompleted ==
    /\ pc = "done"
    /\ step_result = "aborted"
    /\ completed_steps # {}
    /\ step_number \notin completed_steps
    /\ Cardinality(completed_steps) < Cardinality(StepNumbers(task_doc))
    /\ phase_result = "success"

\* The human gate of the running attempt ended with the answer Y.
HumanConfirmedSuccess ==
    /\ gate_log # <<>>
    /\ gate_log[Len(gate_log)].gate = "manual"
    /\ gate_log[Len(gate_log)].outcome = "y"

\* C38: latest_successful_code and the snapshots change only in the
\* acceptance of an attempt the human confirmed, completed_steps only when
\* the result of that step is handled; every step of an attempt from its
\* generation to its human gate leaves the three as they are.
OnlyAcceptanceChangesTheStore ==
    [][ /\ (latest_successful_code' # latest_successful_code
              \/ successful_steps' # successful_steps)
           => (pc = "mark" /\ HumanConfirmedSuccess)
        /\ completed_steps' # completed_steps
           => /\ pc = "result"
              /\ step_result = "success"
              /\ accepted # <<>>
              /\ accepted[Len(accepted)].step = step_number
              /\ completed_steps' = completed_steps \cup {step_number}
        /\ (pc \in {"attempt", "build", "inspect", "install", "tests", "manual"})
           => /\ latest_successful_code' = latest_successful_code
              /\ successful_steps' = successful_steps
              /\ completed_steps' = completed_steps ]_vars

\* Attempts of the step failed at the tests and at the human gate, the step
\* ended without acceptance, and the store and completed_steps are as at the
\* start.
FailedAttemptsLeftNoTrace ==
    /\ pc = "done"
    /\ step_result # "success"
    /\ Len(failure_log) >= 2
    /\ {"tests", "manual"} \subseteq gates_run
    /\ accepted = <<>>
    /\ latest_successful_code = EmptyDir
    /\ \A n \in DOMAIN successful_steps : ~successful_steps[n].exists
    /\ completed_steps = {}

====
